---- MODULE Spec2Model ----
(***************************************************************************)
(* IotWebConfLite: the versioned configuration loader/saver and the config *)
(* portal request handlers of src/src/IotWebConf.cpp.                      *)
(*                                                                         *)
(* Characters and bytes are integers (ASCII codes, 0..255); a C string is  *)
(* the sequence of its characters without the terminating NUL; a value     *)
(* buffer is a sequence of exactly getLength(id) bytes.                    *)
(***************************************************************************)
EXTENDS Integers, Sequences, FiniteSets, TLC

(***************************************************************************)
(* Program constants (IotWebConfSettings.h, appended to IotWebConf.cpp).   *)
(***************************************************************************)
IOTWEBCONF_CONFIG_START == 0
IOTWEBCONF_CONFIG_VERSION_LENGTH == 4
IOTWEBCONF_WORD_LEN == 33
IOTWEBCONF_PASSWORD_LEN == 33

(***************************************************************************)
(* Bounds of the model: the capacities of the one custom and the one       *)
(* hidden parameter the embedding sketch may register.                     *)
(***************************************************************************)
CustomLen == 2
HiddenLen == 1

(***************************************************************************)
(* Text.  Ascii gives the code of a letter, a digit or the full stop.       *)
(***************************************************************************)
LowerCaseLetters ==
  <<"a", "b", "c", "d", "e", "f", "g", "h", "i", "j", "k", "l", "m",
    "n", "o", "p", "q", "r", "s", "t", "u", "v", "w", "x", "y", "z">>
UpperCaseLetters ==
  <<"A", "B", "C", "D", "E", "F", "G", "H", "I", "J", "K", "L", "M",
    "N", "O", "P", "Q", "R", "S", "T", "U", "V", "W", "X", "Y", "Z">>
DecimalDigits == <<"0", "1", "2", "3", "4", "5", "6", "7", "8", "9">>

Position(seq, c) == CHOOSE i \in 1..Len(seq) : seq[i] = c

Ascii(c) ==
  IF \E i \in 1..Len(LowerCaseLetters) : LowerCaseLetters[i] = c
    THEN 96 + Position(LowerCaseLetters, c)
  ELSE IF \E i \in 1..Len(UpperCaseLetters) : UpperCaseLetters[i] = c
    THEN 64 + Position(UpperCaseLetters, c)
  ELSE IF \E i \in 1..Len(DecimalDigits) : DecimalDigits[i] = c
    THEN 47 + Position(DecimalDigits, c)
  ELSE 46  \* "."

\* The C string spelled by a tuple of one-character strings.
Str(cs) == [i \in 1..Len(cs) |-> Ascii(cs[i])]

\* strncpy(dst, src, n): n bytes, the first characters of src, then NUL
\* padding when src is shorter than n.
strncpy(src, n) == [i \in 1..n |-> IF i <= Len(src) THEN src[i] ELSE 0]

\* The C string held in a char buffer: the bytes before the first NUL.
CStr(buf) ==
  IF \A i \in 1..Len(buf) : buf[i] # 0 THEN buf
  ELSE SubSeq(buf, 1,
         (CHOOSE i \in 1..Len(buf) : buf[i] = 0 /\ \A j \in 1..(i - 1) : buf[j] # 0) - 1)

(***************************************************************************)
(* Inputs.  The constructor arguments of the sketch, and the texts that    *)
(* requests and the sketch supply.                                         *)
(***************************************************************************)
defaultThingName == Str(<<"m", "y", "t", "h", "i", "n", "g">>)
initialApPassword == Str(<<"i", "n", "i", "t", "p", "a", "s", "s">>)
configVersion == Str(<<"i", "n", "i", "t">>)

ThingNameId == "iwcThingName"
ApPasswordId == "iwcApPassword"
CustomId == "c1"
HiddenId == "h1"
ItemIds == {ThingNameId, ApPasswordId, CustomId, HiddenId}

VARIABLES
  customParameterGroups,  \* ids of the leaves under _customParameterGroups
  hiddenParameters,       \* ids of the leaves under _hiddenParameters
  values,                 \* id -> valueBuffer (for the system items: _thingName, _apPassword)
  errorMessage,           \* id -> errorMessage of the item ("" is NULL)
  eeprom,                 \* offset -> byte of the persistent store
  eepromOpen,             \* EEPROM.begin() was called and EEPROM.end() not since
  configSavingCallback,   \* _configSavingCallback != NULL
  configSavedCallback,    \* _configSavedCallback != NULL
  formValidator,          \* _formValidator != NULL
  updatePath,             \* _updatePath != NULL
  started,                \* init() or loadConfig() has run: registration is over
  op,                     \* the operation that ran last
  ret,                    \* what it returned: "true", "false" or "void"
  log,                    \* what it did, in order: calls on the store, the
                          \* request wrapper, the items and the callbacks
  clock,                  \* millis(): the millisecond clock, an unsigned long
  stack                   \* the calls in progress under the sketch's loop(),
                          \* outermost first, when the run is followed call by
                          \* call (empty when each operation is one step)

vars == <<customParameterGroups, hiddenParameters, values, errorMessage,
          eeprom, eepromOpen, configSavingCallback, configSavedCallback,
          formValidator, updatePath, started, op, ret, log,
          clock, stack>>

\* One entry of log.
Ev(name, id, arg) == [ev |-> name, id |-> id, arg |-> arg]

(***************************************************************************)
(* The parameter registry (IotWebConfParameter.h is not part of the        *)
(* sources at hand; ConfigItem and ParameterGroup follow the               *)
(* specification's section 4.1).                                           *)
(***************************************************************************)
\* The leaves under _systemParameters, in registration order.
systemParameters == <<ThingNameId, ApPasswordId>>

\* The leaves under _allParameters: system, custom, hidden.
allParameters(custom, hidden) == systemParameters \o custom \o hidden

\* The fixed byte capacity of a leaf.
getLength(id) ==
  CASE id = ThingNameId -> IOTWEBCONF_WORD_LEN
    [] id = ApPasswordId -> IOTWEBCONF_PASSWORD_LEN
    [] id = CustomId -> CustomLen
    [] id = HiddenId -> HiddenLen

\* The defaults the sketch gives its own parameters.
customDefault == Str(<<"d">>)
hiddenDefault == Str(<<"h">>)

\* The default value of a leaf.
defaultValue(id) ==
  CASE id = ThingNameId -> defaultThingName
    [] id = ApPasswordId -> <<>>
    [] id = CustomId -> customDefault
    [] id = HiddenId -> hiddenDefault

\* Whether renderHtml() shows the leaf.
visible(id) == TRUE

RECURSIVE getStorageSize(_)
getStorageSize(items) ==
  IF items = <<>> THEN 0
  ELSE getLength(Head(items)) + getStorageSize(Tail(items))

RECURSIVE applyDefaultValue(_, _)
applyDefaultValue(items, vals) ==
  IF items = <<>> THEN vals
  ELSE LET id == Head(items) IN
       applyDefaultValue(Tail(items),
         [vals EXCEPT ![id] = strncpy(defaultValue(id), getLength(id))])

RECURSIVE clearErrorMessage(_, _)
clearErrorMessage(items, errs) ==
  IF items = <<>> THEN errs
  ELSE clearErrorMessage(Tail(items), [errs EXCEPT ![Head(items)] = ""])

\* update(): every leaf of the group takes its submitted value, capped to
\* its capacity.
RECURSIVE update(_, _, _)
update(items, args, vals) ==
  IF items = <<>> THEN vals
  ELSE LET id == Head(items) IN
       update(Tail(items), args,
         [vals EXCEPT ![id] = strncpy(args[id], getLength(id))])

\* renderHtml(): one fragment per visible leaf, in order.
RECURSIVE renderHtml(_, _)
renderHtml(items, dataArrived) ==
  IF items = <<>> THEN <<>>
  ELSE (IF visible(Head(items))
        THEN <<Ev("renderHtml", Head(items), <<IF dataArrived THEN 1 ELSE 0>>)>>
        ELSE <<>>)
       \o renderHtml(Tail(items), dataArrived)

(***************************************************************************)
(* The persistent store.                                                   *)
(***************************************************************************)
EepromSize ==
  IOTWEBCONF_CONFIG_START + IOTWEBCONF_CONFIG_VERSION_LENGTH
  + IOTWEBCONF_WORD_LEN + IOTWEBCONF_PASSWORD_LEN + CustomLen + HiddenLen

Offsets == 0..(EepromSize - 1)

readEepromValue(ee, start, length) == [t \in 1..length |-> ee[start + t - 1]]

writeEepromValue(ee, start, valueBuffer, length) ==
  [a \in Offsets |->
     IF a >= start /\ a < start + length THEN valueBuffer[a - start + 1] ELSE ee[a]]

\* testConfigVersion whose loop stops one byte early.
testConfigVersion_ShortLoop(ee) ==
  \A t \in 0..(IOTWEBCONF_CONFIG_VERSION_LENGTH - 2) :
     ee[IOTWEBCONF_CONFIG_START + t] = configVersion[t + 1]

testConfigVersion(ee) ==
  \A t \in 0..(IOTWEBCONF_CONFIG_VERSION_LENGTH - 1) :
     ee[IOTWEBCONF_CONFIG_START + t] = configVersion[t + 1]

saveConfigVersion(ee) ==
  [a \in Offsets |->
     IF a >= IOTWEBCONF_CONFIG_START
        /\ a < IOTWEBCONF_CONFIG_START + IOTWEBCONF_CONFIG_VERSION_LENGTH
     THEN configVersion[a - IOTWEBCONF_CONFIG_START + 1] ELSE ee[a]]

initConfig(custom, hidden) == getStorageSize(allParameters(custom, hidden))

\* Where the first leaf lies: just past the version tag.
LeafStart == IOTWEBCONF_CONFIG_START + IOTWEBCONF_CONFIG_VERSION_LENGTH

\* A region one byte short.
RegionSize_OneShort(size) ==
  IOTWEBCONF_CONFIG_START + IOTWEBCONF_CONFIG_VERSION_LENGTH + size - 1

\* A region that leaves the version tag out.
RegionSize_NoTag(size) == IOTWEBCONF_CONFIG_START + size

\* The size loadConfig() and saveConfig() open the store with.
RegionSize(size) ==
  IOTWEBCONF_CONFIG_START + IOTWEBCONF_CONFIG_VERSION_LENGTH + size

\* loadValue with a consumer that does not advance start.
loadValue_NoAdvance(items, start, ee, vals) ==
  [id \in ItemIds |->
     IF \E i \in 1..Len(items) : items[i] = id
     THEN readEepromValue(ee, start, getLength(id)) ELSE vals[id]]

\* _allParameters.loadValue(consumer) with loadConfig's consumer, which
\* reads each leaf at start and advances start by the leaf's length.
RECURSIVE loadValue(_, _, _, _)
loadValue(items, start, ee, vals) ==
  IF items = <<>> THEN vals
  ELSE LET id == Head(items) IN
       loadValue(Tail(items), start + getLength(id), ee,
         [vals EXCEPT ![id] = readEepromValue(ee, start, getLength(id))])

RECURSIVE loadLog(_, _)
loadLog(items, start) ==
  IF items = <<>> THEN <<>>
  ELSE <<Ev("read", Head(items), <<start, getLength(Head(items))>>)>>
       \o loadLog(Tail(items), start + getLength(Head(items)))

\* _allParameters.storeValue(producer) with saveConfig's producer.
RECURSIVE storeValue(_, _, _, _)
storeValue(items, start, ee, vals) ==
  IF items = <<>> THEN ee
  ELSE LET id == Head(items) IN
       storeValue(Tail(items), start + getLength(id),
         writeEepromValue(ee, start, vals[id], getLength(id)), vals)

RECURSIVE storeLog(_, _)
storeLog(items, start) ==
  IF items = <<>> THEN <<>>
  ELSE <<Ev("write", Head(items), <<start, getLength(Head(items))>>)>>
       \o storeLog(Tail(items), start + getLength(Head(items)))

\* loadConfig() that, on a wrong tag, writes the tag and the defaults it
\* applied to the store.
loadConfigResult_StoreDefaults(custom, hidden, ee, vals) ==
  LET size == initConfig(custom, hidden)
      all == allParameters(custom, hidden)
      begin == <<Ev("EEPROM.begin", "", <<RegionSize(size)>>),
                 Ev("readVersion", "",
                   <<IOTWEBCONF_CONFIG_START, IOTWEBCONF_CONFIG_VERSION_LENGTH>>)>>
  IN IF testConfigVersion(ee)
     THEN [ret |-> "true",
           values |-> loadValue(all, LeafStart, ee, vals),
           eeprom |-> ee,
           log |-> begin \o loadLog(all, LeafStart),
           open |-> TRUE]
     ELSE [ret |-> "false",
           values |-> applyDefaultValue(all, vals),
           eeprom |-> storeValue(all, LeafStart, saveConfigVersion(ee),
                                 applyDefaultValue(all, vals)),
           log |-> begin \o <<Ev("applyDefaultValue", "", <<>>)>>,
           open |-> TRUE]

\* loadConfig(): what it returns, the values and the store it leaves, what
\* it does and whether it leaves the store open.  Both branches return
\* before the EEPROM.end() that ends the function body; neither calls
\* EEPROM.write().
loadConfigResult(custom, hidden, ee, vals) ==
  LET size == initConfig(custom, hidden)
      all == allParameters(custom, hidden)
      begin == <<Ev("EEPROM.begin", "", <<RegionSize(size)>>),
                 Ev("readVersion", "",
                   <<IOTWEBCONF_CONFIG_START, IOTWEBCONF_CONFIG_VERSION_LENGTH>>)>>
  IN IF testConfigVersion(ee)
     THEN [ret |-> "true",
           values |-> loadValue(all, LeafStart, ee, vals),
           eeprom |-> ee,
           log |-> begin \o loadLog(all, LeafStart),
           open |-> TRUE]
     ELSE [ret |-> "false",
           values |-> applyDefaultValue(all, vals),
           eeprom |-> ee,
           log |-> begin \o <<Ev("applyDefaultValue", "", <<>>)>>,
           open |-> TRUE]

\* saveConfig() that opens the store before it calls the pre-save hook.
saveConfigResult_HookInside(custom, hidden, ee, vals, saving, saved) ==
  LET size == initConfig(custom, hidden)
      all == allParameters(custom, hidden)
  IN [eeprom |-> storeValue(all, LeafStart, saveConfigVersion(ee), vals),
      log |-> <<Ev("EEPROM.begin", "", <<RegionSize(size)>>)>>
              \o (IF saving THEN <<Ev("configSavingCallback", "", <<size>>)>> ELSE <<>>)
              \o <<Ev("writeVersion", "",
                     <<IOTWEBCONF_CONFIG_START, IOTWEBCONF_CONFIG_VERSION_LENGTH>>)>>
              \o storeLog(all, LeafStart)
              \o <<Ev("EEPROM.end", "", <<>>)>>
              \o (IF saved THEN <<Ev("configSavedCallback", "", <<>>)>> ELSE <<>>),
      open |-> FALSE]

\* saveConfig(): the store it leaves and what it does.
saveConfigResult(custom, hidden, ee, vals, saving, saved) ==
  LET size == initConfig(custom, hidden)
      all == allParameters(custom, hidden)
  IN [eeprom |-> storeValue(all, LeafStart, saveConfigVersion(ee), vals),
      log |-> (IF saving THEN <<Ev("configSavingCallback", "", <<size>>)>> ELSE <<>>)
              \o <<Ev("EEPROM.begin", "", <<RegionSize(size)>>),
                   Ev("writeVersion", "",
                     <<IOTWEBCONF_CONFIG_START, IOTWEBCONF_CONFIG_VERSION_LENGTH>>)>>
              \o storeLog(all, LeafStart)
              \o <<Ev("EEPROM.end", "", <<>>)>>
              \o (IF saved THEN <<Ev("configSavedCallback", "", <<>>)>> ELSE <<>>),
      open |-> FALSE]

(***************************************************************************)
(* The state after construction.                                           *)
(***************************************************************************)
\* A store that was never written: erased flash reads 0xFF.
ErasedStore == [a \in Offsets |-> 255]

\* A store this firmware saved earlier with both sketch parameters
\* registered: the tag, thing name "MyThing", AP password "newpass8", the
\* custom and the hidden leaf at their defaults.
SavedStore ==
  storeValue(<<ThingNameId, ApPasswordId, CustomId, HiddenId>>, LeafStart,
             saveConfigVersion(ErasedStore),
             [id \in ItemIds |->
                strncpy(CASE id = ThingNameId -> Str(<<"M", "y", "T", "h", "i", "n", "g">>)
                          [] id = ApPasswordId -> Str(<<"n", "e", "w", "p", "a", "s", "s", "8">>)
                          [] OTHER -> defaultValue(id),
                        getLength(id))])

\* The same store saved under another configVersion: tag byte t differs.
OtherVersionStore(t) ==
  [SavedStore EXCEPT ![IOTWEBCONF_CONFIG_START + t] = (@ + 1) % 256]

InitialStores ==
  {ErasedStore, SavedStore, OtherVersionStore(0),
   OtherVersionStore(IOTWEBCONF_CONFIG_VERSION_LENGTH - 1)}

\* _thingName and _apPassword are members without initialiser: zeroed when
\* the object is static, arbitrary otherwise.  The sketch's own buffers
\* are static.
UninitializedBytes == {0, 165}

Init ==
  /\ customParameterGroups = <<>>
  /\ hiddenParameters = <<>>
  /\ \E g \in UninitializedBytes :
        values = [id \in ItemIds |->
                    [i \in 1..getLength(id) |->
                       IF id \in {ThingNameId, ApPasswordId} THEN g ELSE 0]]
  /\ errorMessage = [id \in ItemIds |-> ""]
  /\ eeprom \in InitialStores
  /\ eepromOpen = FALSE
  /\ configSavingCallback = FALSE
  /\ configSavedCallback = FALSE
  /\ formValidator = FALSE
  /\ updatePath \in BOOLEAN
  /\ started = FALSE
  /\ op = "constructor"
  /\ ret = "void"
  /\ log = <<>>
  /\ clock = 0
  /\ stack = <<>>

(***************************************************************************)
(* Registration and callbacks: before init().  The sketch's setup() makes  *)
(* a prefix of these calls, in this order, and then calls init() or        *)
(* loadConfig().                                                           *)
(***************************************************************************)
AddParameterGroup ==
  /\ ~started
  /\ formValidator
  /\ customParameterGroups = <<>>
  /\ customParameterGroups' = Append(customParameterGroups, CustomId)
  /\ op' = "addParameterGroup" /\ ret' = "void" /\ log' = <<>>
  /\ UNCHANGED <<hiddenParameters, values, errorMessage, eeprom, eepromOpen,
                 configSavingCallback, configSavedCallback, formValidator,
                 updatePath, started>>
  /\ UNCHANGED <<clock, stack>>

AddHiddenParameter ==
  /\ ~started
  /\ customParameterGroups # <<>>
  /\ hiddenParameters = <<>>
  /\ hiddenParameters' = Append(hiddenParameters, HiddenId)
  /\ op' = "addHiddenParameter" /\ ret' = "void" /\ log' = <<>>
  /\ UNCHANGED <<customParameterGroups, values, errorMessage, eeprom, eepromOpen,
                 configSavingCallback, configSavedCallback, formValidator,
                 updatePath, started>>
  /\ UNCHANGED <<clock, stack>>

SetConfigSavingCallback ==
  /\ ~started
  /\ ~configSavingCallback
  /\ configSavingCallback' = TRUE
  /\ op' = "setConfigSavingCallback" /\ ret' = "void" /\ log' = <<>>
  /\ UNCHANGED <<customParameterGroups, hiddenParameters, values, errorMessage,
                 eeprom, eepromOpen, configSavedCallback, formValidator,
                 updatePath, started>>
  /\ UNCHANGED <<clock, stack>>

SetConfigSavedCallback ==
  /\ ~started
  /\ configSavingCallback
  /\ ~configSavedCallback
  /\ configSavedCallback' = TRUE
  /\ op' = "setConfigSavedCallback" /\ ret' = "void" /\ log' = <<>>
  /\ UNCHANGED <<customParameterGroups, hiddenParameters, values, errorMessage,
                 eeprom, eepromOpen, configSavingCallback, formValidator,
                 updatePath, started>>
  /\ UNCHANGED <<clock, stack>>

SetFormValidator ==
  /\ ~started
  /\ configSavedCallback
  /\ ~formValidator
  /\ formValidator' = TRUE
  /\ op' = "setFormValidator" /\ ret' = "void" /\ log' = <<>>
  /\ UNCHANGED <<customParameterGroups, hiddenParameters, values, errorMessage,
                 eeprom, eepromOpen, configSavingCallback, configSavedCallback,
                 updatePath, started>>
  /\ UNCHANGED <<clock, stack>>

(***************************************************************************)
(* init(), loadConfig(), saveConfig().                                     *)
(***************************************************************************)
\* init(): loadConfig(), and the initial AP password when there is no
\* valid configuration.
initResult_NoInitialPassword(custom, hidden, ee, vals) ==
  loadConfigResult(custom, hidden, ee, vals)

initResult(custom, hidden, ee, vals) ==
  LET l == loadConfigResult(custom, hidden, ee, vals)
  IN IF l.ret = "false"
     THEN [l EXCEPT !.values[ApPasswordId] =
                       strncpy(initialApPassword, IOTWEBCONF_PASSWORD_LEN)]
     ELSE l

InitCall ==
  /\ ~started
  /\ \E r \in {initResult(customParameterGroups, hiddenParameters, eeprom, values)} :
        /\ values' = r.values
        /\ eeprom' = r.eeprom
        /\ eepromOpen' = r.open
        /\ ret' = r.ret
        /\ log' = r.log
  /\ started' = TRUE
  /\ op' = "init"
  /\ UNCHANGED <<customParameterGroups, hiddenParameters, errorMessage,
                 configSavingCallback, configSavedCallback, formValidator,
                 updatePath>>
  /\ UNCHANGED <<clock, stack>>

LoadConfig ==
  /\ \E r \in {loadConfigResult(customParameterGroups, hiddenParameters, eeprom, values)} :
        /\ values' = r.values
        /\ eeprom' = r.eeprom
        /\ eepromOpen' = r.open
        /\ ret' = r.ret
        /\ log' = r.log
  /\ started' = TRUE
  /\ op' = "loadConfig"
  /\ UNCHANGED <<customParameterGroups, hiddenParameters, errorMessage,
                 configSavingCallback, configSavedCallback, formValidator,
                 updatePath>>
  /\ UNCHANGED <<clock, stack>>

SaveConfig ==
  /\ started
  /\ \E r \in {saveConfigResult(customParameterGroups, hiddenParameters, eeprom,
                                values, configSavingCallback, configSavedCallback)} :
        /\ eeprom' = r.eeprom
        /\ eepromOpen' = r.open
        /\ log' = r.log
  /\ op' = "saveConfig"
  /\ ret' = "void"
  /\ UNCHANGED <<customParameterGroups, hiddenParameters, values, errorMessage,
                 configSavingCallback, configSavedCallback, formValidator,
                 updatePath, started>>
  /\ UNCHANGED <<clock, stack>>

\* The sketch changes the valueBuffer of one of its hidden parameters
\* directly (to be followed by saveConfig()).
SketchValues == {Str(<<"k", "k", "k">>)}

SetValueBuffer ==
  /\ started
  /\ \E i \in 1..Len(hiddenParameters), v \in SketchValues :
        LET id == hiddenParameters[i]
        IN values' = [values EXCEPT ![id] = strncpy(v, getLength(id))]
  /\ op' = "setValueBuffer" /\ ret' = "void" /\ log' = <<>>
  /\ UNCHANGED <<customParameterGroups, hiddenParameters, errorMessage, eeprom,
                 eepromOpen, configSavingCallback, configSavedCallback,
                 formValidator, updatePath, started>>
  /\ UNCHANGED <<clock, stack>>

(***************************************************************************)
(* Requests.                                                               *)
(***************************************************************************)
IOTWEBCONF_ADMIN_USER_NAME == "admin"

\* The address the request arrived at, as IPAddress: 192.168.4.1.
localIP == 192 + 168 * 256 + 4 * 65536 + 1 * 16777216

NewPassword == Str(<<"n", "e", "w", "p", "a", "s", "s", "8">>)

\* What a browser may send as credentials: the initial password, a
\* password set through the portal, and another user's name.
Credentials ==
  {[user |-> "admin", password |-> initialApPassword],
   [user |-> "admin", password |-> NewPassword],
   [user |-> "guest", password |-> initialApPassword]}

\* Submitted thing names (2 and 3 characters) and AP passwords (0, 5, 7
\* and 8 characters).
ThingNameArgs == {Str(<<"a", "b">>), Str(<<"a", "b", "c">>)}
ApPasswordArgs ==
  {<<>>, Str(<<"1", "2", "3", "4", "5">>), Str(<<"1", "2", "3", "4", "5", "6", "7">>),
   NewPassword}

\* The fields of a submitted form; a field for the hidden item's id rides
\* along.
FormArgs ==
  {[id \in ItemIds |->
      CASE id = ThingNameId -> n
        [] id = ApPasswordId -> p
        [] id = CustomId -> Str(<<"x", "y", "z">>)
        [] id = HiddenId -> Str(<<"q">>)] :
     n \in ThingNameArgs, p \in ApPasswordArgs}

NoArgs == [id \in ItemIds |-> <<>>]

DeviceAddress == Str(<<"1", "9", "2", ".", "1", "6", "8", ".", "4", ".", "1">>)
ForeignName ==
  Str(<<"e", "v", "i", "l", ".", "e", "x", "a", "m", "p", "l", "e", ".", "c", "o", "m">>)

\* Host headers: the device's address, a foreign name, and the device
\* name followed by ".local" in two spellings.
Hosts ==
  {DeviceAddress,
   ForeignName,
   Str(<<"m", "y", "t", "h", "i", "n", "g", ".", "l", "o", "c", "a", "l">>),
   Str(<<"M", "y", "T", "h", "i", "n", "g", ".", "l", "o", "c", "a", "l">>)}

\* What the request asks for.
Uris == {<<47, 120>>, <<47, 121>>}

\* A request: its credentials, its host header, its URI, whether it
\* carries the "iotSave" field, and its form fields.
Request(c, h, u, save, a) ==
  [user |-> c.user, password |-> c.password, host |-> h, uri |-> u,
   iotSave |-> save, args |-> a]

\* Requests for a page other than the config page.
PageRequests ==
  {Request([user |-> "guest", password |-> <<>>], h, u, FALSE, NoArgs) :
     h \in Hosts, u \in Uris}

\* Requests for the config page: plain ones at the device's address or at
\* a foreign name, submissions at the device's address.
ConfigRequests ==
  {Request(c, h, <<47>>, FALSE, NoArgs) :
     c \in Credentials, h \in {DeviceAddress, ForeignName}}
  \cup
  {Request(c, DeviceAddress, <<47>>, TRUE, a) : c \in Credentials, a \in FormArgs}

\* WebServer::authenticate(username, password).
authenticate(req, username, password) ==
  req.user = username /\ req.password = password

\* A truth value as a log argument.
Bit(b) == IF b THEN 1 ELSE 0

(***************************************************************************)
(* Captive portal.                                                         *)
(***************************************************************************)
\* String::toLowerCase().
toLowerCase(str) ==
  [i \in 1..Len(str) |-> IF str[i] >= 65 /\ str[i] <= 90 THEN str[i] + 32 ELSE str[i]]

\* String::startsWith(prefix).
startsWith(str, prefix) ==
  /\ Len(str) >= Len(prefix)
  /\ \A i \in 1..Len(prefix) : str[i] = prefix[i]

isIp(str) ==
  \A i \in 1..Len(str) : ~(str[i] # 46 /\ (str[i] < 48 \/ str[i] > 57))

\* String(n) for an unsigned number: its decimal digits.
RECURSIVE DecimalString(_)
DecimalString(n) ==
  IF n < 10 THEN <<48 + n>> ELSE DecimalString(n \div 10) \o <<48 + (n % 10)>>

toStringIp(ip) ==
  DecimalString(ip % 256) \o <<46>>
  \o DecimalString((ip \div 256) % 256) \o <<46>>
  \o DecimalString((ip \div 65536) % 256) \o <<46>>
  \o DecimalString((ip \div 16777216) % 256)

\* "http://"
HttpScheme == Str(<<"h", "t", "t", "p">>) \o <<58, 47, 47>>

\* handleCaptivePortal(): what it returns and what it does.
handleCaptivePortalResult(req, vals) ==
  LET host == req.host
      thingName == toLowerCase(CStr(vals[ThingNameId]))
  IN IF ~isIp(host) /\ ~startsWith(host, thingName)
     THEN [ret |-> "true",
           log |-> <<Ev("hostHeader", "", host),
                     Ev("sendHeader", "Location", HttpScheme \o toStringIp(localIP)),
                     Ev("send", "", <<302>>),
                     Ev("stop", "", <<>>)>>]
     ELSE [ret |-> "false", log |-> <<Ev("hostHeader", "", host)>>]

HandleCaptivePortal ==
  /\ started
  /\ \E req \in PageRequests :
        \E r \in {handleCaptivePortalResult(req, values)} :
           ret' = r.ret /\ log' = r.log
  /\ op' = "handleCaptivePortal"
  /\ UNCHANGED <<customParameterGroups, hiddenParameters, values, errorMessage,
                 eeprom, eepromOpen, configSavingCallback, configSavedCallback,
                 formValidator, updatePath, started>>
  /\ UNCHANGED <<clock, stack>>

\* handleNotFound() going on to the error page after a redirect.
handleNotFoundResult_NoReturn(req, vals) ==
  LET c == handleCaptivePortalResult(req, vals)
  IN [log |-> c.log \o <<Ev("uri", "", req.uri),
                         Ev("sendHeader", "Cache-Control", <<>>),
                         Ev("sendHeader", "Pragma", <<>>),
                         Ev("sendHeader", "Expires", <<>>),
                         Ev("sendHeader", "Content-Length", <<>>),
                         Ev("send", "uri", <<404>> \o req.uri)>>]

\* handleNotFound(): what it does.
handleNotFoundResult(req, vals) ==
  LET c == handleCaptivePortalResult(req, vals)
  IN IF c.ret = "true"
     THEN [log |-> c.log]
     ELSE [log |-> c.log \o <<Ev("uri", "", req.uri),
                              Ev("sendHeader", "Cache-Control", <<>>),
                              Ev("sendHeader", "Pragma", <<>>),
                              Ev("sendHeader", "Expires", <<>>),
                              Ev("sendHeader", "Content-Length", <<>>),
                              Ev("send", "uri", <<404>> \o req.uri)>>]

HandleNotFound ==
  /\ started
  /\ \E req \in PageRequests : log' = handleNotFoundResult(req, values).log
  /\ op' = "handleNotFound"
  /\ ret' = "void"
  /\ UNCHANGED <<customParameterGroups, hiddenParameters, values, errorMessage,
                 eeprom, eepromOpen, configSavingCallback, configSavedCallback,
                 formValidator, updatePath, started>>
  /\ UNCHANGED <<clock, stack>>

(***************************************************************************)
(* The config portal.                                                      *)
(***************************************************************************)
ThingNameError == "Give a name with at least 3 characters."
ApPasswordError == "Password length must be at least 8 characters."

\* The external validation of validateForm(): the form validator's answer
\* when one is registered.
formValidatorResult_Ignored(validator, answer) == TRUE

formValidatorResult(validator, answer) == IF validator THEN answer ELSE TRUE

\* The built-in checks of validateForm() on the lengths of the submitted
\* thing name and AP password.
thingNameTooShort_Inclusive(l) == 3 >= l

thingNameTooShort(l) == 3 > l

apPasswordTooShort(l) == (0 < l) /\ (l < 8)

\* validateForm() that returns at the first failing check.
validateFormResult_ShortCircuit(req, custom, errs, validator, answer) ==
  LET cleared == clearErrorMessage(custom, clearErrorMessage(systemParameters, errs))
      external == formValidatorResult(validator, answer)
      nameLength == Len(req.args[ThingNameId])
      nameFails == external /\ thingNameTooShort(nameLength)
      passwordLength == Len(req.args[ApPasswordId])
      passwordFails == external /\ ~nameFails /\ apPasswordTooShort(passwordLength)
  IN [valid |-> external /\ ~nameFails /\ ~passwordFails,
      errorMessage |->
        [cleared EXCEPT
           ![ThingNameId] = IF nameFails THEN ThingNameError ELSE @,
           ![ApPasswordId] = IF passwordFails THEN ApPasswordError ELSE @],
      log |-> <<Ev("clearErrorMessage", "iwcSys", <<>>),
                Ev("clearErrorMessage", "iwcCustom", <<>>)>>
              \o (IF validator THEN <<Ev("formValidator", "", <<Bit(answer)>>)>> ELSE <<>>)
              \o (IF external THEN <<Ev("arg", ThingNameId, <<nameLength>>)>> ELSE <<>>)
              \o (IF nameFails THEN <<Ev("errorMessage", ThingNameId, <<>>)>> ELSE <<>>)
              \o (IF external /\ ~nameFails
                  THEN <<Ev("arg", ApPasswordId, <<passwordLength>>)>> ELSE <<>>)
              \o (IF passwordFails THEN <<Ev("errorMessage", ApPasswordId, <<>>)>> ELSE <<>>)]

\* validateForm() without the clearing of the previous error messages.
validateFormResult_NoClear(req, custom, errs, validator, answer) ==
  LET external == formValidatorResult(validator, answer)
      nameLength == Len(req.args[ThingNameId])
      nameFails == thingNameTooShort(nameLength)
      passwordLength == Len(req.args[ApPasswordId])
      passwordFails == apPasswordTooShort(passwordLength)
  IN [valid |-> external /\ ~nameFails /\ ~passwordFails,
      errorMessage |->
        [errs EXCEPT
           ![ThingNameId] = IF nameFails THEN ThingNameError ELSE @,
           ![ApPasswordId] = IF passwordFails THEN ApPasswordError ELSE @],
      log |-> <<Ev("clearErrorMessage", "iwcSys", <<>>),
                Ev("clearErrorMessage", "iwcCustom", <<>>)>>
              \o (IF validator THEN <<Ev("formValidator", "", <<Bit(answer)>>)>> ELSE <<>>)
              \o <<Ev("arg", ThingNameId, <<nameLength>>)>>
              \o (IF nameFails THEN <<Ev("errorMessage", ThingNameId, <<>>)>> ELSE <<>>)
              \o <<Ev("arg", ApPasswordId, <<passwordLength>>)>>
              \o (IF passwordFails THEN <<Ev("errorMessage", ApPasswordId, <<>>)>> ELSE <<>>)]

\* validateForm(): its result, the error messages it leaves, what it does.
\* answer is what the sketch's form validator returns when it is called.
validateFormResult(req, custom, errs, validator, answer) ==
  LET cleared == clearErrorMessage(custom, clearErrorMessage(systemParameters, errs))
      external == formValidatorResult(validator, answer)
      nameLength == Len(req.args[ThingNameId])
      nameFails == thingNameTooShort(nameLength)
      passwordLength == Len(req.args[ApPasswordId])
      passwordFails == apPasswordTooShort(passwordLength)
  IN [valid |-> external /\ ~nameFails /\ ~passwordFails,
      errorMessage |->
        [cleared EXCEPT
           ![ThingNameId] = IF nameFails THEN ThingNameError ELSE @,
           ![ApPasswordId] = IF passwordFails THEN ApPasswordError ELSE @],
      log |-> <<Ev("clearErrorMessage", "iwcSys", <<>>),
                Ev("clearErrorMessage", "iwcCustom", <<>>)>>
              \o (IF validator THEN <<Ev("formValidator", "", <<Bit(answer)>>)>> ELSE <<>>)
              \o <<Ev("arg", ThingNameId, <<nameLength>>)>>
              \o (IF nameFails THEN <<Ev("errorMessage", ThingNameId, <<>>)>> ELSE <<>>)
              \o <<Ev("arg", ApPasswordId, <<passwordLength>>)>>
              \o (IF passwordFails THEN <<Ev("errorMessage", ApPasswordId, <<>>)>> ELSE <<>>)]

\* update() of a group, as log entries: each leaf and the value submitted
\* for it.
updateLog(items, args) == [i \in 1..Len(items) |-> Ev("update", items[i], args[items[i]])]

\* The config page rendered from the stored values whatever was submitted,
\* and with the custom groups ahead of the system group.
configPage_CustomFirst(custom, dataArrived, withUpdate) ==
  <<Ev("sendHeader", "Cache-Control", <<>>),
    Ev("sendHeader", "Pragma", <<>>),
    Ev("sendHeader", "Expires", <<>>),
    Ev("setContentLength", "", <<>>),
    Ev("send", "", <<200>>),
    Ev("sendContent", "formStart", <<>>)>>
  \o renderHtml(custom, FALSE)
  \o renderHtml(systemParameters, FALSE)
  \o <<Ev("sendContent", "formEnd", <<>>)>>
  \o (IF withUpdate THEN <<Ev("sendContent", "update", <<>>)>> ELSE <<>>)
  \o <<Ev("sendContent", "configVer", <<>>),
       Ev("sendContent", "end", <<>>),
       Ev("stop", "", <<>>)>>

\* The config page, as handleConfig() sends it.
configPage(custom, dataArrived, withUpdate) ==
  <<Ev("sendHeader", "Cache-Control", <<>>),
    Ev("sendHeader", "Pragma", <<>>),
    Ev("sendHeader", "Expires", <<>>),
    Ev("setContentLength", "", <<>>),
    Ev("send", "", <<200>>),
    Ev("sendContent", "formStart", <<>>)>>
  \o renderHtml(systemParameters, dataArrived)
  \o renderHtml(custom, dataArrived)
  \o <<Ev("sendContent", "formEnd", <<>>)>>
  \o (IF withUpdate THEN <<Ev("sendContent", "update", <<>>)>> ELSE <<>>)
  \o <<Ev("sendContent", "configVer", <<>>),
       Ev("sendContent", "end", <<>>),
       Ev("stop", "", <<>>)>>

\* The confirmation page.
savedPage ==
  <<Ev("sendHeader", "Content-Length", <<>>), Ev("send", "saved", <<200>>)>>

\* The request as the web server received it, for the log: its Host
\* header, its credentials and whether it carries "iotSave"; for a
\* submission that the handler lets in, the fields submitted for the
\* system and custom leaves, and the answer the sketch's form validator
\* has for it.
requestLog(req, answer, letIn, validator) ==
  <<Ev("request.host", "", req.host),
    Ev("request.credentials", req.user, req.password),
    Ev("request.iotSave", "", <<Bit(req.iotSave)>>)>>
  \o (IF letIn /\ req.iotSave
      THEN <<Ev("request.arg", ThingNameId, req.args[ThingNameId]),
             Ev("request.arg", ApPasswordId, req.args[ApPasswordId]),
             Ev("request.arg", CustomId, req.args[CustomId])>>
           \o (IF validator THEN <<Ev("request.answer", "", <<Bit(answer)>>)>> ELSE <<>>)
      ELSE <<>>)

\* The authentication of handleConfig() against a password other than
\* the current one: the initial AP password.
authenticated_InitialPassword(req, vals) ==
  authenticate(req, IOTWEBCONF_ADMIN_USER_NAME, initialApPassword)

\* The authentication of handleConfig(): the admin user, against the
\* AP password as it is now.
authenticated(req, vals) ==
  authenticate(req, IOTWEBCONF_ADMIN_USER_NAME, CStr(vals[ApPasswordId]))

\* The dispatch of handleConfig() with && for ||.
showForm_And(dataArrived, valid) == ~dataArrived /\ ~valid

\* The dispatch of handleConfig(): the form is shown unless data arrived
\* and is valid.  validateForm() runs only when data arrived.
\* The dispatch without the validation.
showForm_NoValidation(dataArrived, valid) == ~dataArrived

showForm(dataArrived, valid) == ~dataArrived \/ ~valid

\* The save branch of handleConfig() with saveConfig() before the updates.
saveAndConfirm_SaveFirst(req, custom, hidden, vals, ee, saving, saved) ==
  LET s == saveConfigResult(custom, hidden, ee, vals, saving, saved)
      updated == update(custom, req.args, update(systemParameters, req.args, vals))
  IN [values |-> updated, eeprom |-> s.eeprom, open |-> s.open,
      log |-> s.log
              \o updateLog(systemParameters, req.args)
              \o updateLog(custom, req.args)
              \o savedPage]

\* The save branch of handleConfig() updating the hidden group as well.
saveAndConfirm_UpdateAll(req, custom, hidden, vals, ee, saving, saved) ==
  LET updated == update(allParameters(custom, hidden), req.args, vals)
      s == saveConfigResult(custom, hidden, ee, updated, saving, saved)
  IN [values |-> updated, eeprom |-> s.eeprom, open |-> s.open,
      log |-> updateLog(allParameters(custom, hidden), req.args)
              \o s.log
              \o savedPage]

\* The save branch of handleConfig() that stores the submitted values
\* and leaves the ones in memory as they were until the next load.
saveAndConfirm_StoreOnly(req, custom, hidden, vals, ee, saving, saved) ==
  LET updated == update(custom, req.args, update(systemParameters, req.args, vals))
      s == saveConfigResult(custom, hidden, ee, updated, saving, saved)
  IN [values |-> vals, eeprom |-> s.eeprom, open |-> s.open,
      log |-> updateLog(systemParameters, req.args)
              \o updateLog(custom, req.args)
              \o s.log
              \o savedPage]

\* The save branch of handleConfig(): update the system group, update the
\* custom groups, saveConfig(), send the confirmation page.
saveAndConfirm(req, custom, hidden, vals, ee, saving, saved) ==
  LET updated == update(custom, req.args, update(systemParameters, req.args, vals))
      s == saveConfigResult(custom, hidden, ee, updated, saving, saved)
  IN [values |-> updated, eeprom |-> s.eeprom, open |-> s.open,
      log |-> updateLog(systemParameters, req.args)
              \o updateLog(custom, req.args)
              \o s.log
              \o savedPage]

\* handleConfig(): the values, error messages and store it leaves, and
\* what it does.
handleConfigResult(req, answer, custom, hidden, vals, errs, ee, open, validator, saving, saved, withUpdate) ==
  LET letIn == authenticated(req, vals)
      auth == requestLog(req, answer, letIn, validator)
              \o <<Ev("authenticate", IOTWEBCONF_ADMIN_USER_NAME, CStr(vals[ApPasswordId]))>>
  IN
  IF ~letIn
  THEN [values |-> vals, errorMessage |-> errs, eeprom |-> ee, open |-> open,
        log |-> auth \o <<Ev("requestAuthentication", "", <<>>)>>]
  ELSE
    LET dataArrived == req.iotSave
        hasArg == <<Ev("hasArg", "iotSave", <<Bit(dataArrived)>>)>>
        v == IF dataArrived
             THEN validateFormResult(req, custom, errs, validator, answer)
             ELSE [valid |-> FALSE, errorMessage |-> errs, log |-> <<>>]
    IN IF showForm(dataArrived, v.valid)
       THEN [values |-> vals, errorMessage |-> v.errorMessage, eeprom |-> ee,
             open |-> open,
             log |-> auth \o hasArg \o v.log
                     \o configPage(custom, dataArrived, withUpdate)]
       ELSE
         LET s == saveAndConfirm(req, custom, hidden, vals, ee, saving, saved)
         IN [values |-> s.values, errorMessage |-> v.errorMessage,
             eeprom |-> s.eeprom, open |-> s.open,
             log |-> auth \o hasArg \o v.log \o s.log]

HandleConfig ==
  /\ started
  /\ \E req \in ConfigRequests :
     \E answer \in (IF formValidator /\ req.iotSave /\ authenticated(req, values)
                    THEN BOOLEAN ELSE {TRUE}) :
        \E r \in {handleConfigResult(req, answer, customParameterGroups,
                                     hiddenParameters, values, errorMessage,
                                     eeprom, eepromOpen, formValidator,
                                     configSavingCallback, configSavedCallback,
                                     updatePath)} :
           /\ values' = r.values
           /\ errorMessage' = r.errorMessage
           /\ eeprom' = r.eeprom
           /\ eepromOpen' = r.open
           /\ log' = r.log
  /\ op' = "handleConfig"
  /\ ret' = "void"
  /\ UNCHANGED <<customParameterGroups, hiddenParameters, configSavingCallback,
                 configSavedCallback, formValidator, updatePath, started>>
  /\ UNCHANGED <<clock, stack>>

Next ==
  \/ AddParameterGroup
  \/ AddHiddenParameter
  \/ SetConfigSavingCallback
  \/ SetConfigSavedCallback
  \/ SetFormValidator
  \/ InitCall
  \/ LoadConfig
  \/ SaveConfig
  \/ SetValueBuffer
  \/ HandleCaptivePortal
  \/ HandleNotFound
  \/ HandleConfig

Spec == Init /\ [][Next]_vars

(***************************************************************************)
(* The run followed call by call: the sketch's loop() calls delay() or     *)
(* doLoop(); doLoop() lets the web server handle a client, which may       *)
(* dispatch handleConfig() or handleNotFound(); handleConfig() calls the   *)
(* sketch's callbacks, and a callback may call delay().  stack holds the   *)
(* calls in progress.                                                      *)
(***************************************************************************)
\* millis() and the subtraction in delay() are unsigned: they are taken
\* modulo the range of unsigned long.  That range is 2^32 on the device;
\* the model's numbers end below it, so the clock is kept 16 bits wide
\* here, which leaves every delay far shorter than the range, as on the
\* device.
MillisModulus == 65536

\* The longest delay asked for, the longest time (in ms) one pass of the
\* loop of delay() takes, and the number of handlers that may be entered
\* while another is in progress.
MaxDelay == 2
MaxTick == 2
MaxNesting == 1

\* What millis() may return when the sketch's loop() makes a call: a time
\* well before the clock wraps, and the last one before it does.
ClockStarts == {0, MillisModulus - 1}

\* One call in progress.  fn: the function; pc: where it stands; m and
\* delayStart: the argument and the local of delay(); elapsed: the time
\* passed since the call was made, as far as m; calls: what a doLoop() has called so
\* far; req and answer: the request a handler serves and what the form
\* validator returns for it.
Frame(fn, pc, m, delayStart, req, answer) ==
  [fn |-> fn, pc |-> pc, m |-> m, delayStart |-> delayStart, elapsed |-> 0,
   calls |-> <<>>, req |-> req, answer |-> answer]

Top == stack[Len(stack)]
Pop == SubSeq(stack, 1, Len(stack) - 1)
Callers == SubSeq(stack, 1, Len(stack) - 1)

Handlers == {"handleConfig", "handleNotFound"}
Callbacks == {"formValidator", "configSavingCallback", "configSavedCallback"}

\* The handler invocations in progress.
HandlersIn(st) == Cardinality({i \in 1..Len(st) : st[i].fn \in Handlers})

\* The requests a client may have pending: one for the config page, one
\* that submits a new thing name and AP password, one for an unknown path.
LoopRequest(name) ==
  CASE name = "plain" ->
         Request([user |-> IOTWEBCONF_ADMIN_USER_NAME, password |-> initialApPassword],
                 DeviceAddress, <<47>>, FALSE, NoArgs)
    [] name = "submit" ->
         Request([user |-> IOTWEBCONF_ADMIN_USER_NAME, password |-> initialApPassword],
                 DeviceAddress, <<47>>, TRUE,
                 [id \in ItemIds |->
                    CASE id = ThingNameId -> Str(<<"a", "b", "c">>)
                      [] id = ApPasswordId -> NewPassword
                      [] id = CustomId -> Str(<<"x", "y", "z">>)
                      [] id = HiddenId -> Str(<<"q">>)])
    [] name = "missing" ->
         Request([user |-> "guest", password |-> <<>>], ForeignName, <<47, 120>>,
                 FALSE, NoArgs)

\* After setup(): the three callbacks set, no parameter of the sketch's
\* own, init() done on an erased store.
InitLoop ==
  /\ customParameterGroups = <<>>
  /\ hiddenParameters = <<>>
  /\ \E r \in {initResult(<<>>, <<>>, ErasedStore,
                          [id \in ItemIds |-> [i \in 1..getLength(id) |-> 0]])} :
        /\ values = r.values
        /\ eeprom = r.eeprom
        /\ eepromOpen = r.open
        /\ ret = r.ret
        /\ log = r.log
  /\ errorMessage = [id \in ItemIds |-> ""]
  /\ configSavingCallback = TRUE
  /\ configSavedCallback = TRUE
  /\ formValidator = TRUE
  /\ updatePath = FALSE
  /\ started = TRUE
  /\ op = "init"
  /\ clock = 0
  /\ stack = <<>>

\* Time passes: millis() moves on, and so does the time since each
\* delay() in progress was called.
Elapse(st, d) ==
  [i \in 1..Len(st) |->
     IF st[i].fn = "delay"
     THEN [st[i] EXCEPT !.elapsed = IF @ + d < st[i].m THEN @ + d ELSE st[i].m]
     ELSE st[i]]

\* The test of the loop of delay().
delayContinues_Deadline(m, now, delayStart) == (delayStart + m) % MillisModulus > now

delayContinues(m, now, delayStart) ==
  m > (now - delayStart + MillisModulus) % MillisModulus

\* What doLoop() calls, in order.
doLoopCalls == <<"processNextRequest", "handleClient">>

\* The sketch's loop() calls delay(m): delayStart = millis().
LoopDelay ==
  /\ stack = <<>>
  /\ \E m \in 0..MaxDelay, now \in ClockStarts :
        /\ clock' = now
        /\ stack' = <<Frame("delay", "test", m, now, "", TRUE)>>
  /\ UNCHANGED <<customParameterGroups, hiddenParameters, values, errorMessage,
                 eeprom, eepromOpen, configSavingCallback, configSavedCallback,
                 formValidator, updatePath, started, op, ret, log>>

\* The sketch's loop() calls doLoop().
LoopDoLoop ==
  /\ stack = <<>>
  /\ clock' \in ClockStarts
  /\ stack' = <<Frame("doLoop", "call", 0, 0, "", TRUE)>>
  /\ UNCHANGED <<customParameterGroups, hiddenParameters, values, errorMessage,
                 eeprom, eepromOpen, configSavingCallback, configSavedCallback,
                 formValidator, updatePath, started, op, ret, log>>

\* delay(): while (m > millis() - delayStart) call doLoop(); else return.
DelayTest ==
  /\ stack # <<>> /\ Top.fn = "delay" /\ Top.pc = "test"
  /\ stack' = IF delayContinues(Top.m, clock, Top.delayStart)
              THEN Callers \o <<[Top EXCEPT !.pc = "delayMicroseconds"],
                                Frame("doLoop", "call", 0, 0, "", TRUE)>>
              ELSE Pop
  /\ UNCHANGED <<customParameterGroups, hiddenParameters, values, errorMessage,
                 eeprom, eepromOpen, configSavingCallback, configSavedCallback,
                 formValidator, updatePath, started, op, ret, log, clock>>

\* delay(): delayMicroseconds(1000) after doLoop(); the pass has taken at
\* least a millisecond.
DelayMicroseconds ==
  /\ stack # <<>> /\ Top.fn = "delay" /\ Top.pc = "delayMicroseconds"
  /\ \E d \in 1..MaxTick :
        /\ clock' = (clock + d) % MillisModulus
        /\ stack' = Elapse(Callers \o <<[Top EXCEPT !.pc = "test"]>>, d)
  /\ UNCHANGED <<customParameterGroups, hiddenParameters, values, errorMessage,
                 eeprom, eepromOpen, configSavingCallback, configSavedCallback,
                 formValidator, updatePath, started, op, ret, log>>

\* The call doLoop() makes next, "" when it has made them all.
NextCall(f) ==
  IF Len(f.calls) < Len(doLoopCalls) THEN doLoopCalls[Len(f.calls) + 1] ELSE ""

Called(f, name) == [f EXCEPT !.calls = Append(@, name)]

\* doLoop(): _dnsServer->processNextRequest().
ProcessNextRequest ==
  /\ stack # <<>> /\ Top.fn = "doLoop" /\ NextCall(Top) = "processNextRequest"
  /\ stack' = Callers \o <<Called(Top, "processNextRequest")>>
  /\ UNCHANGED <<customParameterGroups, hiddenParameters, values, errorMessage,
                 eeprom, eepromOpen, configSavingCallback, configSavedCallback,
                 formValidator, updatePath, started, op, ret, log, clock>>

\* doLoop(): _webServerWrapper->handleClient() with no request to serve.
HandleClientIdle ==
  /\ stack # <<>> /\ Top.fn = "doLoop" /\ NextCall(Top) = "handleClient"
  /\ stack' = Callers \o <<Called(Top, "handleClient")>>
  /\ UNCHANGED <<customParameterGroups, hiddenParameters, values, errorMessage,
                 eeprom, eepromOpen, configSavingCallback, configSavedCallback,
                 formValidator, updatePath, started, op, ret, log, clock>>

\* doLoop(): _webServerWrapper->handleClient() with a request to serve:
\* the web server calls the handler of its path.  Nothing of the device
\* tells the web server that a handler is in progress already.
HandleClientDispatch ==
  /\ stack # <<>> /\ Top.fn = "doLoop" /\ NextCall(Top) = "handleClient"
  /\ HandlersIn(stack) <= MaxNesting
  /\ \/ stack' = Callers \o <<Called(Top, "handleClient"),
                              Frame("handleConfig", "authenticate", 0, 0, "plain", TRUE)>>
     \/ \E answer \in BOOLEAN :
          stack' = Callers \o <<Called(Top, "handleClient"),
                                Frame("handleConfig", "authenticate", 0, 0, "submit", answer)>>
     \/ stack' = Callers \o <<Called(Top, "handleClient"),
                              Frame("handleNotFound", "call", 0, 0, "missing", TRUE)>>
  /\ UNCHANGED <<customParameterGroups, hiddenParameters, values, errorMessage,
                 eeprom, eepromOpen, configSavingCallback, configSavedCallback,
                 formValidator, updatePath, started, op, ret, log, clock>>

\* doLoop() returns.
DoLoopReturn ==
  /\ stack # <<>> /\ Top.fn = "doLoop" /\ NextCall(Top) = ""
  /\ stack' = Pop
  /\ UNCHANGED <<customParameterGroups, hiddenParameters, values, errorMessage,
                 eeprom, eepromOpen, configSavingCallback, configSavedCallback,
                 formValidator, updatePath, started, op, ret, log, clock>>

\* handleNotFound(), start to end: it calls nothing of the sketch.
NotFoundCall ==
  /\ stack # <<>> /\ Top.fn = "handleNotFound"
  /\ stack' = Pop
  /\ UNCHANGED <<customParameterGroups, hiddenParameters, values, errorMessage,
                 eeprom, eepromOpen, configSavingCallback, configSavedCallback,
                 formValidator, updatePath, started, op, ret, log, clock>>

\* A callback of the sketch is called, if it is set.
CallOf(name, set) ==
  IF set THEN <<Frame(name, "run", 0, 0, "", TRUE)>> ELSE <<>>

\* handleConfig() up to the call of the form validator: authentication,
\* the dispatch on "iotSave", and the clearing of the error messages in
\* validateForm().
ConfigAuthenticate ==
  /\ stack # <<>> /\ Top.fn = "handleConfig" /\ Top.pc = "authenticate"
  /\ LET req == LoopRequest(Top.req) IN
     IF authenticated(req, values) /\ req.iotSave
     THEN /\ errorMessage' = clearErrorMessage(customParameterGroups,
                               clearErrorMessage(systemParameters, errorMessage))
          /\ stack' = Callers \o <<[Top EXCEPT !.pc = "checks"]>>
                      \o CallOf("formValidator", formValidator)
     ELSE /\ errorMessage' = errorMessage
          /\ stack' = Pop
  /\ UNCHANGED <<customParameterGroups, hiddenParameters, values,
                 eeprom, eepromOpen, configSavingCallback, configSavedCallback,
                 formValidator, updatePath, started, op, ret, log, clock>>

\* handleConfig() from the return of the form validator to the call of
\* the pre-save hook: the built-in checks of validateForm(), then either
\* the form, or the updates and the start of saveConfig().
ConfigChecks ==
  /\ stack # <<>> /\ Top.fn = "handleConfig" /\ Top.pc = "checks"
  /\ LET req == LoopRequest(Top.req)
         nameFails == thingNameTooShort(Len(req.args[ThingNameId]))
         passwordFails == apPasswordTooShort(Len(req.args[ApPasswordId]))
         valid == formValidatorResult(formValidator, Top.answer)
                  /\ ~nameFails /\ ~passwordFails
     IN /\ errorMessage' =
             [errorMessage EXCEPT
                ![ThingNameId] = IF nameFails THEN ThingNameError ELSE @,
                ![ApPasswordId] = IF passwordFails THEN ApPasswordError ELSE @]
        /\ IF showForm(TRUE, valid)
           THEN /\ values' = values
                /\ stack' = Pop
           ELSE /\ values' = update(customParameterGroups, req.args,
                               update(systemParameters, req.args, values))
                /\ stack' = Callers \o <<[Top EXCEPT !.pc = "store"]>>
                            \o CallOf("configSavingCallback", configSavingCallback)
  /\ UNCHANGED <<customParameterGroups, hiddenParameters,
                 eeprom, eepromOpen, configSavingCallback, configSavedCallback,
                 formValidator, updatePath, started, op, ret, log, clock>>

\* saveConfig() in handleConfig() from the return of the pre-save hook to
\* the call of the post-save hook: the store is opened, written and
\* released.
ConfigStore ==
  /\ stack # <<>> /\ Top.fn = "handleConfig" /\ Top.pc = "store"
  /\ eeprom' = storeValue(allParameters(customParameterGroups, hiddenParameters),
                          LeafStart, saveConfigVersion(eeprom), values)
  /\ eepromOpen' = FALSE
  /\ stack' = Callers \o <<[Top EXCEPT !.pc = "page"]>>
              \o CallOf("configSavedCallback", configSavedCallback)
  /\ UNCHANGED <<customParameterGroups, hiddenParameters, values, errorMessage,
                 configSavingCallback, configSavedCallback,
                 formValidator, updatePath, started, op, ret, log, clock>>

\* handleConfig() from the return of the post-save hook: the confirmation
\* page, and the return.
ConfigPage ==
  /\ stack # <<>> /\ Top.fn = "handleConfig" /\ Top.pc = "page"
  /\ stack' = Pop
  /\ UNCHANGED <<customParameterGroups, hiddenParameters, values, errorMessage,
                 eeprom, eepromOpen, configSavingCallback, configSavedCallback,
                 formValidator, updatePath, started, op, ret, log, clock>>

\* A callback of the sketch calls delay(m), as the sketch is told to do
\* when it has to wait.  The callback waits one millisecond, the shortest
\* wait that runs the loop; the waits of every length are those of LoopDelay.
CallbackDelay ==
  /\ stack # <<>> /\ Top.fn \in Callbacks /\ Top.pc = "run"
  /\ \E m \in {1} :
        stack' = Callers \o <<[Top EXCEPT !.pc = "return"],
                              Frame("delay", "test", m, clock, "", TRUE)>>
  /\ UNCHANGED <<customParameterGroups, hiddenParameters, values, errorMessage,
                 eeprom, eepromOpen, configSavingCallback, configSavedCallback,
                 formValidator, updatePath, started, op, ret, log, clock>>

\* A callback of the sketch returns.
CallbackReturn ==
  /\ stack # <<>> /\ Top.fn \in Callbacks
  /\ stack' = Pop
  /\ UNCHANGED <<customParameterGroups, hiddenParameters, values, errorMessage,
                 eeprom, eepromOpen, configSavingCallback, configSavedCallback,
                 formValidator, updatePath, started, op, ret, log, clock>>

\* The steps the device and the callbacks take once the sketch's loop()
\* has made its call.
Running ==
  \/ DelayTest
  \/ DelayMicroseconds
  \/ ProcessNextRequest
  \/ HandleClientIdle
  \/ HandleClientDispatch
  \/ DoLoopReturn
  \/ NotFoundCall
  \/ ConfigAuthenticate
  \/ ConfigChecks
  \/ ConfigStore
  \/ ConfigPage
  \/ CallbackDelay
  \/ CallbackReturn

NextLoop ==
  \/ LoopDelay
  \/ LoopDoLoop
  \/ Running

\* Calls in progress go on: the processor runs, and delayMicroseconds()
\* returns.
SpecLoop == InitLoop /\ [][NextLoop]_vars /\ WF_vars(Running)

(***************************************************************************)
(* Reading a log.                                                          *)
(***************************************************************************)
Has(l, name) == \E i \in 1..Len(l) : l[i].ev = name
Count(l, name) == Cardinality({i \in 1..Len(l) : l[i].ev = name})
First(l, name) == CHOOSE i \in 1..Len(l) : l[i].ev = name /\ \A j \in 1..(i - 1) : l[j].ev # name
Last(l, name) == CHOOSE i \in 1..Len(l) : l[i].ev = name /\ \A j \in (i + 1)..Len(l) : l[j].ev # name
Entry(l, name) == l[First(l, name)]
HasFor(l, name, id) == \E i \in 1..Len(l) : l[i].ev = name /\ l[i].id = id
EntryFor(l, name, id) == l[CHOOSE i \in 1..Len(l) : l[i].ev = name /\ l[i].id = id]

\* The leaves that are registered now.
Registered == allParameters(customParameterGroups, hiddenParameters)
RegisteredIds == {Registered[i] : i \in 1..Len(Registered)}

\* The version tag at the head of the store.
StoredTag == [t \in 1..IOTWEBCONF_CONFIG_VERSION_LENGTH |-> eeprom[IOTWEBCONF_CONFIG_START + t - 1]]

(***************************************************************************)
(* C1.  Round trip: saveConfig() leaves every value buffer as it is, and   *)
(* a loadConfig() that follows it returns true and leaves every value      *)
(* buffer as it was before the save.                                       *)
(***************************************************************************)
C1_RoundTrip ==
  [][/\ op' = "saveConfig" => values' = values
     /\ (op = "saveConfig" /\ op' = "loadConfig") => (ret' = "true" /\ values' = values)]_vars

\* A load has brought back values that only a save of this run can have
\* put into the store: the initial AP password and a hidden value the
\* sketch set.
C1_Witness ==
  /\ op = "loadConfig"
  /\ ret = "true"
  /\ hiddenParameters = <<HiddenId>>
  /\ CStr(values[ApPasswordId]) = initialApPassword
  /\ values[HiddenId] # strncpy(hiddenDefault, HiddenLen)
  /\ values[CustomId] = strncpy(customDefault, CustomLen)

(***************************************************************************)
(* C2.  Default fallback: loadConfig() returns true exactly when the       *)
(* version-tag bytes at the head of the store equal the expected tag, and  *)
(* when it returns false every registered leaf holds its default value.    *)
(***************************************************************************)
C2_DefaultFallback ==
  op = "loadConfig" =>
    /\ (ret = "true") <=> (StoredTag = configVersion)
    /\ ret = "false" => \A id \in RegisteredIds : CStr(values[id]) = defaultValue(id)

\* The store was saved under a configVersion that differs in its last
\* byte only, and the load fell back to the defaults of the whole tree.
C2_Witness ==
  /\ op = "loadConfig"
  /\ ret = "false"
  /\ eeprom = OtherVersionStore(IOTWEBCONF_CONFIG_VERSION_LENGTH - 1)
  /\ hiddenParameters = <<HiddenId>>
  /\ CStr(values[ThingNameId]) = defaultThingName

(***************************************************************************)
(* C3.  Every loadConfig() and every saveConfig() opens the store exactly  *)
(* once and has closed it when it returns.                                 *)
(***************************************************************************)
C3_StoreReleased ==
  op \in {"loadConfig", "saveConfig"} =>
    /\ Count(log, "EEPROM.begin") = 1
    /\ Count(log, "EEPROM.end") = 1
    /\ ~eepromOpen

(***************************************************************************)
(* Reading the request out of the log of a handleConfig().                 *)
(***************************************************************************)
ReqHost(l) == Entry(l, "request.host").arg
ReqUser(l) == Entry(l, "request.credentials").id
ReqPassword(l) == Entry(l, "request.credentials").arg
ReqIotSave(l) == Entry(l, "request.iotSave").arg = <<1>>
ReqArg(l, id) == EntryFor(l, "request.arg", id).arg
ReqAnswer(l) == Has(l, "request.answer") => Entry(l, "request.answer").arg = <<1>>

\* A response with this status code was sent.
Sent(l, code) == \E i \in 1..Len(l) : l[i].ev = "send" /\ l[i].arg[1] = code

\* The config form was rendered: status 200, the form fragments, the
\* system items in between.
FormRendered(l) ==
  /\ Sent(l, 200)
  /\ Has(l, "renderHtml")
  /\ HasFor(l, "sendContent", "formStart")
  /\ HasFor(l, "sendContent", "formEnd")

\* The save path was entered: a hook fired or the store was touched.
SaveEntered(l) ==
  \E i \in 1..Len(l) :
    l[i].ev \in {"configSavingCallback", "configSavedCallback", "EEPROM.begin",
                 "writeVersion", "write", "EEPROM.end"}

\* The step is a handleConfig() on a request with the admin user's name
\* and the AP password as it was when the request came in.
AuthenticConfigStep ==
  /\ op' = "handleConfig"
  /\ ReqUser(log') = IOTWEBCONF_ADMIN_USER_NAME
  /\ ReqPassword(log') = CStr(values[ApPasswordId])

\* The submitted thing name, or AP password, is one validation rejects.
NameTooShort(l) == Len(ReqArg(l, ThingNameId)) < 3
PasswordTooShort(l) ==
  Len(ReqArg(l, ApPasswordId)) > 0 /\ Len(ReqArg(l, ApPasswordId)) < 8

(***************************************************************************)
(* C4.  A rejected submission changes nothing but error messages: when an  *)
(* authenticated config request carries "iotSave" and fails a check (thing *)
(* name shorter than 3, AP password of 1..7 characters, or the form        *)
(* validator answering false), handleConfig() renders the form, sets the   *)
(* error message of each failing built-in check, updates no item, does not *)
(* enter saveConfig() (no hook fires), and leaves every value buffer and   *)
(* the store as they were.                                                 *)
(***************************************************************************)
C4_RejectedSubmission ==
  [][(/\ AuthenticConfigStep
      /\ ReqIotSave(log')
      /\ ~Has(log', "requestAuthentication")
         => (NameTooShort(log') \/ PasswordTooShort(log') \/ ~ReqAnswer(log')))
     =>
     (/\ ~Has(log', "requestAuthentication")
      /\ FormRendered(log')
      /\ NameTooShort(log') => errorMessage'[ThingNameId] = ThingNameError
      /\ PasswordTooShort(log') => errorMessage'[ApPasswordId] = ApPasswordError
      /\ ~Has(log', "update")
      /\ ~SaveEntered(log')
      /\ ~HasFor(log', "send", "saved")
      /\ values' = values
      /\ eeprom' = eeprom
      /\ eepromOpen' = eepromOpen)]_vars

\* Thing name "ab" was submitted with both hooks registered: the form came
\* back with the thing-name error, the thing name is still the default.
C4_Witness ==
  /\ op = "handleConfig"
  /\ configSavingCallback /\ configSavedCallback
  /\ ReqIotSave(log)
  /\ Has(log, "request.arg")
  /\ Len(ReqArg(log, ThingNameId)) = 2
  /\ FormRendered(log)
  /\ errorMessage[ThingNameId] = ThingNameError
  /\ CStr(values[ThingNameId]) = defaultThingName

(***************************************************************************)
(* C5.  An accepted submission: when an authenticated config request       *)
(* carries "iotSave" and passes every check, handleConfig() updates the    *)
(* system group, then the custom groups, then saves (pre-save hook, store  *)
(* opened, tag written, leaves written, store closed, post-save hook) and  *)
(* only then sends the confirmation page; the system and custom leaves     *)
(* hold the submitted values; and a loadConfig() that follows returns true *)
(* and leaves these values.                                                *)
(***************************************************************************)
\* Every entry named a comes before every entry named b.
AllBefore(l, a, b) ==
  \A i \in 1..Len(l) : l[i].ev = a => \A j \in 1..i : l[j].ev # b

\* In the log, the updates of the system group precede those of the
\* custom groups.
SystemBeforeCustom(l, custom) ==
  \A i \in 1..Len(l) :
    (l[i].ev = "update" /\ l[i].id \in {ThingNameId, ApPasswordId}) =>
      \A j \in 1..i :
        ~(l[j].ev = "update" /\ \E k \in 1..Len(custom) : custom[k] = l[j].id)

C5_AcceptedSubmission ==
  [][/\ (/\ AuthenticConfigStep
         /\ ReqIotSave(log')
         /\ ~Has(log', "requestAuthentication")
            => (~NameTooShort(log') /\ ~PasswordTooShort(log') /\ ReqAnswer(log')))
        =>
        (/\ ~Has(log', "requestAuthentication")
         /\ \A id \in {ThingNameId, ApPasswordId} : HasFor(log', "update", id)
         /\ \A k \in 1..Len(customParameterGroups) :
               HasFor(log', "update", customParameterGroups[k])
         /\ \A k \in 1..Len(hiddenParameters) :
               ~HasFor(log', "update", hiddenParameters[k])
         /\ SystemBeforeCustom(log', customParameterGroups)
         /\ Has(log', "configSavingCallback") <=> configSavingCallback
         /\ Has(log', "configSavedCallback") <=> configSavedCallback
         /\ Count(log', "EEPROM.begin") = 1 /\ Count(log', "writeVersion") = 1
         /\ Count(log', "EEPROM.end") = 1
         /\ Count(log', "write") = Len(Registered)
         /\ AllBefore(log', "update", "configSavingCallback")
         /\ AllBefore(log', "update", "EEPROM.begin")
         /\ AllBefore(log', "configSavingCallback", "EEPROM.begin")
         /\ AllBefore(log', "EEPROM.begin", "writeVersion")
         /\ AllBefore(log', "writeVersion", "write")
         /\ AllBefore(log', "write", "EEPROM.end")
         /\ AllBefore(log', "EEPROM.end", "configSavedCallback")
         /\ Count(log', "send") = 1
         /\ log'[Len(log')] = Ev("send", "saved", <<200>>)
         /\ ~Has(log', "renderHtml")
         /\ CStr(values'[ThingNameId]) = ReqArg(log', ThingNameId)
         /\ CStr(values'[ApPasswordId]) = ReqArg(log', ApPasswordId)
         /\ \A k \in 1..Len(customParameterGroups) :
               values'[customParameterGroups[k]] =
                 strncpy(ReqArg(log', customParameterGroups[k]),
                         getLength(customParameterGroups[k]))
         /\ \A k \in 1..Len(hiddenParameters) :
               values'[hiddenParameters[k]] = values[hiddenParameters[k]])
     /\ (op = "handleConfig" /\ HasFor(log, "send", "saved") /\ op' = "loadConfig")
        => (ret' = "true" /\ values' = values)]_vars

\* A submission was accepted with a custom group and both hooks
\* registered: the custom leaf holds the submitted text, cut to its
\* capacity, and the confirmation page went out.
C5_Witness ==
  /\ op = "handleConfig"
  /\ HasFor(log, "send", "saved")
  /\ Has(log, "configSavingCallback") /\ Has(log, "configSavedCallback")
  /\ HasFor(log, "update", CustomId)
  /\ values[CustomId] # strncpy(customDefault, CustomLen)
  /\ CStr(values[ThingNameId]) = ReqArg(log, ThingNameId)

(***************************************************************************)
(* C6.  A failed authentication changes nothing: when a config request     *)
(* does not carry the admin user's name with the current AP password,      *)
(* handleConfig() only asks for authentication; it clears and sets no      *)
(* error message, calls no form validator, updates no item, renders no     *)
(* form, and neither reads nor writes the store, whether or not the        *)
(* request carries "iotSave".                                              *)
(***************************************************************************)
C6_AuthenticationFailure ==
  [][(/\ op' = "handleConfig"
      /\ ~(/\ ReqUser(log') = IOTWEBCONF_ADMIN_USER_NAME
           /\ ReqPassword(log') = CStr(values[ApPasswordId])))
     =>
     (/\ Count(log', "requestAuthentication") = 1
      /\ log'[Len(log')].ev = "requestAuthentication"
      /\ \A i \in 1..Len(log') :
            log'[i].ev \in {"request.host", "request.credentials", "request.iotSave",
                            "authenticate", "requestAuthentication"}
      /\ errorMessage' = errorMessage
      /\ values' = values
      /\ eeprom' = eeprom
      /\ eepromOpen' = eepromOpen)]_vars

\* A submission with the wrong password was turned away while an error
\* message of an earlier submission was standing, and the message stands.
C6_Witness ==
  /\ op = "handleConfig"
  /\ Has(log, "requestAuthentication")
  /\ ReqIotSave(log)
  /\ ReqUser(log) = IOTWEBCONF_ADMIN_USER_NAME
  /\ ReqPassword(log) # CStr(values[ApPasswordId])
  /\ errorMessage[ThingNameId] = ThingNameError

(***************************************************************************)
(* The captive-portal rule as the specification words it.                  *)
(***************************************************************************)
HostHeader(l) == Entry(l, "hostHeader").arg

\* The host begins with the name, letter case set aside on both sides.
PrefixMatchIgnoringCase(host, name) ==
  startsWith(toLowerCase(host), toLowerCase(name))

\* The one redirect: Location http://<own address>, 302, connection closed.
RedirectEmitted(l) ==
  SelectSeq(l, LAMBDA e : e.ev \in {"sendHeader", "send", "sendContent", "stop"})
    = <<Ev("sendHeader", "Location", HttpScheme \o DeviceAddress),
        Ev("send", "", <<302>>),
        Ev("stop", "", <<>>)>>

NothingEmitted(l) ==
  \A i \in 1..Len(l) : l[i].ev \notin {"sendHeader", "send", "sendContent", "stop"}

(***************************************************************************)
(* C7.  Config requests pass through the captive-portal check: a           *)
(* handleConfig() whose request authenticates and whose host is neither a  *)
(* literal IP nor a prefix match of the device name answers with a         *)
(* redirect and reaches neither the form nor the save.                     *)
(***************************************************************************)
C7_ConfigThroughCaptivePortal ==
  (/\ op = "handleConfig"
   /\ ~Has(log, "requestAuthentication")
   /\ ~isIp(ReqHost(log))
   /\ ~PrefixMatchIgnoringCase(ReqHost(log), CStr(values[ThingNameId])))
  =>
  (/\ Sent(log, 302)
   /\ ~Has(log, "renderHtml")
   /\ ~SaveEntered(log))

(***************************************************************************)
(* C8.  Captive-portal decision and effect: handleCaptivePortal() returns  *)
(* true exactly when the host header is not a literal IP and does not      *)
(* start with the device name; then it emits one 302 whose Location is     *)
(* http://<own address> and closes the connection; when it returns false   *)
(* it emits nothing.                                                       *)
(***************************************************************************)
C8_CaptivePortalDecision ==
  op = "handleCaptivePortal" =>
    /\ (ret = "true") <=>
         (/\ ~isIp(HostHeader(log))
          /\ ~startsWith(HostHeader(log), CStr(values[ThingNameId])))
    /\ ret = "true" => RedirectEmitted(log)
    /\ ret = "false" => NothingEmitted(log)

(***************************************************************************)
(* C9.  The captive-portal host match is case-insensitive: whenever the    *)
(* host header begins with the device name up to letter case, in the host  *)
(* or in the name, handleCaptivePortal() does not redirect.                *)
(***************************************************************************)
C9_CaseInsensitiveMatch ==
  (/\ op = "handleCaptivePortal"
   /\ PrefixMatchIgnoringCase(HostHeader(log), CStr(values[ThingNameId])))
  => (ret = "false" /\ NothingEmitted(log))

(***************************************************************************)
(* C10.  Not-found handling: handleNotFound() first runs the               *)
(* captive-portal check; if that redirects, the redirect is all that is    *)
(* emitted and no 404 is sent; otherwise exactly one 404 naming the        *)
(* requested URI is sent.  Either way one response goes out, and no value  *)
(* buffer, error message or store byte changes.                            *)
(***************************************************************************)
C10_NotFound ==
  [][op' = "handleNotFound" =>
       /\ log'[1].ev = "hostHeader"
       /\ \E req \in PageRequests :
            /\ req.host = HostHeader(log')
            /\ IF handleCaptivePortalResult(req, values).ret = "true"
               THEN /\ RedirectEmitted(log')
                    /\ ~Sent(log', 404)
               ELSE /\ ~Sent(log', 302)
                    /\ Count(log', "uri") = 1
                    /\ log'[Len(log')] =
                         Ev("send", "uri", <<404>> \o Entry(log', "uri").arg)
       /\ Count(log', "send") = 1
       /\ values' = values
       /\ errorMessage' = errorMessage
       /\ eeprom' = eeprom
       /\ eepromOpen' = eepromOpen]_vars

\* An unknown path was asked of a foreign host name: the redirect went
\* out and no 404.
C10_Witness ==
  /\ op = "handleNotFound"
  /\ HostHeader(log) = ForeignName
  /\ CStr(values[ThingNameId]) = defaultThingName
  /\ RedirectEmitted(log)
  /\ ~Sent(log, 404)

(***************************************************************************)
(* Validation, as a handleConfig() on an authentic submission runs it.     *)
(***************************************************************************)
\* The step is a handleConfig() on an authentic request that carries
\* "iotSave": the one case in which validateForm() is called.
ValidationStep == AuthenticConfigStep /\ ReqIotSave(log')

\* Where the first entry of this name and id lies in the log.
IndexFor(l, name, id) ==
  CHOOSE i \in 1..Len(l) :
    /\ l[i].ev = name /\ l[i].id = id
    /\ \A j \in 1..(i - 1) : ~(l[j].ev = name /\ l[j].id = id)

(***************************************************************************)
(* C11.  Validation is additive: in one validateForm() pass both built-in  *)
(* checks run whatever the form validator answered and whatever the other  *)
(* check found, so each failing check leaves its message; a thing name of  *)
(* length 2 with an AP password of length 5 leaves both messages.          *)
(***************************************************************************)
C11_AdditiveValidation ==
  [][ValidationStep =>
       /\ HasFor(log', "arg", ThingNameId)
       /\ HasFor(log', "arg", ApPasswordId)
       /\ NameTooShort(log') => errorMessage'[ThingNameId] = ThingNameError
       /\ PasswordTooShort(log') => errorMessage'[ApPasswordId] = ApPasswordError]_vars

\* Name of length 2, password of length 5, and a form validator that
\* answered false: both messages stand.
C11_Witness ==
  /\ op = "handleConfig"
  /\ Has(log, "request.arg")
  /\ Len(ReqArg(log, ThingNameId)) = 2
  /\ Len(ReqArg(log, ApPasswordId)) = 5
  /\ Has(log, "request.answer") /\ ~ReqAnswer(log)
  /\ errorMessage[ThingNameId] = ThingNameError
  /\ errorMessage[ApPasswordId] = ApPasswordError

(***************************************************************************)
(* C12.  Validation boundaries: the thing-name message is set exactly when *)
(* the submitted thing name has fewer than 3 characters (0, 1 or 2), and   *)
(* the AP-password message exactly when the submitted AP password has 1 to *)
(* 7 characters; otherwise the item's message is empty after the pass.     *)
(***************************************************************************)
C12_ValidationBoundaries ==
  [][ValidationStep =>
       /\ errorMessage'[ThingNameId] =
            (IF Len(ReqArg(log', ThingNameId)) \in 0..2 THEN ThingNameError ELSE "")
       /\ errorMessage'[ApPasswordId] =
            (IF Len(ReqArg(log', ApPasswordId)) \in 1..7 THEN ApPasswordError ELSE "")
       /\ HasFor(log', "errorMessage", ThingNameId)
            <=> Len(ReqArg(log', ThingNameId)) \in 0..2
       /\ HasFor(log', "errorMessage", ApPasswordId)
            <=> Len(ReqArg(log', ApPasswordId)) \in 1..7]_vars

\* A thing name of 3 characters passed while an AP password of 7
\* characters failed.
C12_Witness ==
  /\ op = "handleConfig"
  /\ Has(log, "request.arg")
  /\ Len(ReqArg(log, ThingNameId)) = 3
  /\ Len(ReqArg(log, ApPasswordId)) = 7
  /\ errorMessage[ThingNameId] = ""
  /\ errorMessage[ApPasswordId] = ApPasswordError

(***************************************************************************)
(* C13.  Validation order and result: a validateForm() pass first clears   *)
(* the messages of the system and custom groups, then calls the form       *)
(* validator once if one is registered (never otherwise), then runs the    *)
(* built-in checks; the submission is saved exactly when the validator's   *)
(* answer (true when none is registered) and both built-in checks are      *)
(* good.                                                                   *)
(***************************************************************************)
C13_ValidationOrder ==
  [][ValidationStep =>
       /\ Count(log', "clearErrorMessage") = 2
       /\ IndexFor(log', "clearErrorMessage", "iwcSys") = IndexFor(log', "hasArg", "iotSave") + 1
       /\ IndexFor(log', "clearErrorMessage", "iwcCustom")
            = IndexFor(log', "clearErrorMessage", "iwcSys") + 1
       /\ Count(log', "formValidator") = (IF formValidator THEN 1 ELSE 0)
       /\ formValidator =>
            /\ Entry(log', "formValidator").arg = Entry(log', "request.answer").arg
            /\ AllBefore(log', "clearErrorMessage", "formValidator")
            /\ AllBefore(log', "formValidator", "arg")
            /\ AllBefore(log', "formValidator", "errorMessage")
       /\ AllBefore(log', "clearErrorMessage", "arg")
       /\ \A k \in 1..Len(customParameterGroups) :
            errorMessage'[customParameterGroups[k]] = ""
       /\ HasFor(log', "send", "saved")
            <=> (ReqAnswer(log') /\ ~NameTooShort(log') /\ ~PasswordTooShort(log'))
       /\ SaveEntered(log') <=> HasFor(log', "send", "saved")]_vars

\* The form validator alone said no to a submission whose thing name and
\* AP password are long enough: the form came back and nothing was saved.
C13_Witness ==
  /\ op = "handleConfig"
  /\ Has(log, "formValidator")
  /\ ~ReqAnswer(log)
  /\ Len(ReqArg(log, ThingNameId)) = 3
  /\ Len(ReqArg(log, ApPasswordId)) = 8
  /\ FormRendered(log)
  /\ ~SaveEntered(log)
  /\ errorMessage[ThingNameId] = "" /\ errorMessage[ApPasswordId] = ""

(***************************************************************************)
(* The events of a save, and the sizes the layout is made of.              *)
(***************************************************************************)
SaveEvents ==
  {"configSavingCallback", "EEPROM.begin", "writeVersion", "write", "EEPROM.end",
   "configSavedCallback"}

\* The save in the log of the last invocation: its events, in order.
SaveOf(l) == SelectSeq(l, LAMBDA e : e.ev \in SaveEvents)

\* The sum of the capacities of the leaves registered now.
TotalLeafSize ==
  IOTWEBCONF_WORD_LEN + IOTWEBCONF_PASSWORD_LEN
  + (IF customParameterGroups = <<>> THEN 0 ELSE CustomLen)
  + (IF hiddenParameters = <<>> THEN 0 ELSE HiddenLen)

(***************************************************************************)
(* C14.  Save hook ordering: in every save (saveConfig() called by the     *)
(* sketch or by handleConfig()) the pre-save hook, if registered, is       *)
(* called once, first, with the total leaf storage size, before the store  *)
(* is opened and the tag written; the post-save hook, if registered, is    *)
(* called once, last, after the leaves are written and the store is        *)
(* released; between them the save is the same with or without hooks:      *)
(* open, tag, one write per leaf, release.                                 *)
(***************************************************************************)
C14_SaveHookOrdering ==
  (op \in {"saveConfig", "handleConfig"} /\ SaveEntered(log)) =>
    LET sv == SaveOf(log)
        inner == SelectSeq(sv, LAMBDA e :
                   e.ev \notin {"configSavingCallback", "configSavedCallback"})
    IN /\ Count(sv, "configSavingCallback") = (IF configSavingCallback THEN 1 ELSE 0)
       /\ Count(sv, "configSavedCallback") = (IF configSavedCallback THEN 1 ELSE 0)
       /\ configSavingCallback => sv[1] = Ev("configSavingCallback", "", <<TotalLeafSize>>)
       /\ configSavedCallback => sv[Len(sv)] = Ev("configSavedCallback", "", <<>>)
       /\ Len(inner) = Len(Registered) + 3
       /\ inner[1].ev = "EEPROM.begin"
       /\ inner[2].ev = "writeVersion"
       /\ \A i \in 3..(Len(inner) - 1) : inner[i].ev = "write"
       /\ inner[Len(inner)].ev = "EEPROM.end"
       /\ sv = (IF configSavingCallback THEN <<sv[1]>> ELSE <<>>) \o inner
               \o (IF configSavedCallback THEN <<sv[Len(sv)]>> ELSE <<>>)
       /\ ~eepromOpen
       /\ StoredTag = configVersion

\* The sketch saved with both hooks, a custom and a hidden leaf
\* registered.
C14_Witness ==
  /\ op = "saveConfig"
  /\ configSavingCallback /\ configSavedCallback
  /\ customParameterGroups # <<>> /\ hiddenParameters # <<>>
  /\ Has(log, "configSavingCallback") /\ Has(log, "configSavedCallback")

(***************************************************************************)
(* C15.  First boot: init() returns false exactly when the head of the     *)
(* store is not the version tag; then the thing name is the default given  *)
(* at construction and the AP password the initial AP password given at    *)
(* construction.  On a store with the tag, init() returns true and thing   *)
(* name and AP password are the stored bytes.                              *)
(***************************************************************************)
C15_FirstBoot ==
  op = "init" =>
    /\ (ret = "false") <=> (StoredTag # configVersion)
    /\ ret = "false" =>
         /\ CStr(values[ThingNameId]) = defaultThingName
         /\ CStr(values[ApPasswordId]) = initialApPassword
    /\ ret = "true" =>
         /\ values[ThingNameId] =
              [i \in 1..IOTWEBCONF_WORD_LEN |->
                 eeprom[IOTWEBCONF_CONFIG_START + IOTWEBCONF_CONFIG_VERSION_LENGTH + i - 1]]
         /\ values[ApPasswordId] =
              [i \in 1..IOTWEBCONF_PASSWORD_LEN |->
                 eeprom[IOTWEBCONF_CONFIG_START + IOTWEBCONF_CONFIG_VERSION_LENGTH
                        + IOTWEBCONF_WORD_LEN + i - 1]]

\* init() ran on an erased store, with a custom group registered.
C15_Witness ==
  /\ op = "init" /\ ret = "false"
  /\ eeprom = ErasedStore
  /\ customParameterGroups # <<>>
  /\ CStr(values[ApPasswordId]) = initialApPassword
  /\ CStr(values[ThingNameId]) = defaultThingName

(***************************************************************************)
(* C16.  Hidden parameters are persisted but never exposed by the portal:  *)
(* a leaf registered with addHiddenParameter() is read by every load that  *)
(* finds the tag, takes its default in every load that does not, is        *)
(* written by every save with the value it holds in memory, is never       *)
(* rendered by handleConfig(), and keeps its buffer through every          *)
(* handleConfig(), also when the request carries a field of its id.        *)
(***************************************************************************)
\* Where the hidden leaf lies in the store: after the tag, the system
\* leaves and the custom leaf if there is one.
HiddenOffset(custom) ==
  IOTWEBCONF_CONFIG_START + IOTWEBCONF_CONFIG_VERSION_LENGTH
  + IOTWEBCONF_WORD_LEN + IOTWEBCONF_PASSWORD_LEN
  + (IF custom = <<>> THEN 0 ELSE CustomLen)

\* The bytes the store holds for the hidden leaf.
HiddenStored(ee, custom) ==
  [i \in 1..HiddenLen |-> ee[HiddenOffset(custom) + i - 1]]

C16_HiddenParameters ==
  [][hiddenParameters # <<>> =>
       /\ op' = "handleConfig" =>
            /\ ~HasFor(log', "renderHtml", HiddenId)
            /\ ~HasFor(log', "update", HiddenId)
            /\ values'[HiddenId] = values[HiddenId]
       /\ (op' \in {"init", "loadConfig"} /\ ret' = "true") =>
            /\ HasFor(log', "read", HiddenId)
            /\ values'[HiddenId] = HiddenStored(eeprom, customParameterGroups)
       /\ (op' \in {"init", "loadConfig"} /\ ret' = "false") =>
            /\ Has(log', "applyDefaultValue")
            /\ CStr(values'[HiddenId]) = CStr(strncpy(hiddenDefault, HiddenLen))
       /\ (op' \in {"saveConfig", "handleConfig"} /\ SaveEntered(log')) =>
            /\ HasFor(log', "write", HiddenId)
            /\ HiddenStored(eeprom', customParameterGroups) = values[HiddenId]]_vars

\* A submission carrying a field of the hidden leaf's id was accepted and
\* saved while the hidden leaf held the value the sketch gave it: the
\* leaf still holds it and the store holds it too.
C16_Witness ==
  /\ op = "handleConfig"
  /\ HasFor(log, "send", "saved")
  /\ hiddenParameters # <<>>
  /\ values[HiddenId] \in {strncpy(v, HiddenLen) : v \in SketchValues}
  /\ HiddenStored(eeprom, customParameterGroups) = values[HiddenId]

(***************************************************************************)
(* C19.  Persisted layout: after a save the store holds, from the base     *)
(* offset, the version tag and then every leaf's buffer once, contiguous,  *)
(* in the order system group, custom groups, hidden group; leaf i lies at  *)
(* base + tag length + the capacities of the leaves before it; a load      *)
(* that finds the tag reads each leaf from that same offset; load and save *)
(* open a region of base + tag length + the sum of all capacities.         *)
(***************************************************************************)
\* The leaves in persisted order.
PersistedOrder == <<ThingNameId, ApPasswordId>> \o customParameterGroups \o hiddenParameters

\* The capacities of the first n leaves of ids, summed.
RECURSIVE PrefixSize(_, _)
PrefixSize(ids, n) ==
  IF n = 0 THEN 0 ELSE PrefixSize(ids, n - 1) + getLength(ids[n])

\* Where leaf i of the persisted order lies.
LeafOffset(i) ==
  IOTWEBCONF_CONFIG_START + IOTWEBCONF_CONFIG_VERSION_LENGTH + PrefixSize(PersistedOrder, i - 1)

\* The region both load and save open.
OpenedRegion ==
  <<IOTWEBCONF_CONFIG_START + IOTWEBCONF_CONFIG_VERSION_LENGTH
    + PrefixSize(PersistedOrder, Len(PersistedOrder))>>

\* The leaf accesses of the log, of one kind, in order.
Accesses(l, kind) == SelectSeq(l, LAMBDA e : e.ev = kind)

\* The accesses go through the leaves in persisted order, each at its
\* offset with its capacity.
InLayout(acc) ==
  /\ Len(acc) = Len(PersistedOrder)
  /\ \A i \in 1..Len(acc) :
       /\ acc[i].id = PersistedOrder[i]
       /\ acc[i].arg = <<LeafOffset(i), getLength(PersistedOrder[i])>>

C19_PersistedLayout ==
  /\ (op \in {"saveConfig", "handleConfig"} /\ SaveEntered(log)) =>
       /\ Entry(log, "EEPROM.begin").arg = OpenedRegion
       /\ Entry(log, "writeVersion").arg =
            <<IOTWEBCONF_CONFIG_START, IOTWEBCONF_CONFIG_VERSION_LENGTH>>
       /\ StoredTag = configVersion
       /\ InLayout(Accesses(log, "write"))
       /\ \A i \in 1..Len(PersistedOrder) :
            \A k \in 1..getLength(PersistedOrder[i]) :
              eeprom[LeafOffset(i) + k - 1] = values[PersistedOrder[i]][k]
  /\ op \in {"init", "loadConfig"} =>
       /\ Entry(log, "EEPROM.begin").arg = OpenedRegion
       /\ Entry(log, "readVersion").arg =
            <<IOTWEBCONF_CONFIG_START, IOTWEBCONF_CONFIG_VERSION_LENGTH>>
       /\ ret = "true" =>
            /\ InLayout(Accesses(log, "read"))
            /\ \A i \in 1..Len(PersistedOrder) :
                 \A k \in 1..getLength(PersistedOrder[i]) :
                   values[PersistedOrder[i]][k] = eeprom[LeafOffset(i) + k - 1]

\* A load found the tag with a custom and a hidden leaf registered, and
\* read the hidden leaf, the last one, just past the custom leaf.
C19_Witness ==
  /\ op = "loadConfig" /\ ret = "true"
  /\ customParameterGroups # <<>> /\ hiddenParameters # <<>>
  /\ EntryFor(log, "read", HiddenId).arg =
       <<IOTWEBCONF_CONFIG_START + IOTWEBCONF_CONFIG_VERSION_LENGTH + IOTWEBCONF_WORD_LEN
         + IOTWEBCONF_PASSWORD_LEN + CustomLen, HiddenLen>>

(***************************************************************************)
(* C20.  Single terminal outcome per config request: every handleConfig()  *)
(* ends with exactly one of an authentication challenge, the rendered form *)
(* (status 200, connection stopped) or the confirmation page (status 200); *)
(* the save runs exactly when the outcome is the confirmation page, which  *)
(* is exactly when the request authenticated, carried "iotSave" and passed *)
(* validation; the challenge is the outcome exactly when the request did   *)
(* not authenticate.                                                       *)
(***************************************************************************)
Challenge(l) == Has(l, "requestAuthentication")
FormOutcome(l) == FormRendered(l) /\ l[Len(l)].ev = "stop"
Confirmation(l) == l[Len(l)] = Ev("send", "saved", <<200>>)

C20_SingleOutcome ==
  [][op' = "handleConfig" =>
       LET authentic == /\ ReqUser(log') = IOTWEBCONF_ADMIN_USER_NAME
                        /\ ReqPassword(log') = CStr(values[ApPasswordId])
           accepted == /\ authentic
                       /\ ReqIotSave(log')
                       /\ Has(log', "request.arg")
                       /\ ReqAnswer(log')
                       /\ ~NameTooShort(log')
                       /\ ~PasswordTooShort(log')
       IN /\ Count(log', "requestAuthentication") + Count(log', "send") = 1
          /\ Challenge(log') <=> ~authentic
          /\ Confirmation(log') <=> accepted
          /\ FormOutcome(log') <=> (authentic /\ ~accepted)
          /\ SaveEntered(log') <=> Confirmation(log')
          /\ Challenge(log') => (~Has(log', "renderHtml") /\ ~Has(log', "sendContent"))
          /\ Confirmation(log') => (~Has(log', "renderHtml") /\ ~Has(log', "stop"))
          /\ ret' = "void"]_vars

\* A plain request for the config page, authenticated with a password set
\* through the portal, got the form and nothing was saved.
C20_Witness ==
  /\ op = "handleConfig"
  /\ ~ReqIotSave(log)
  /\ ReqPassword(log) = NewPassword
  /\ FormOutcome(log)
  /\ ~SaveEntered(log)
  /\ Count(log, "send") = 1

(***************************************************************************)
(* C21.  Form rendering order and pre-fill source: whenever handleConfig() *)
(* renders the form, it renders the system parameter group and then the    *)
(* custom parameter groups, each leaf exactly once, between the form-start *)
(* and the form-end fragment, with hasSubmittedData true exactly when the  *)
(* request carried "iotSave"; the update-link fragment is sent exactly     *)
(* when an update path is configured, the version-string fragment always.  *)
(***************************************************************************)
\* The renderHtml() calls of the last invocation, in order.
Rendered(l) == SelectSeq(l, LAMBDA e : e.ev = "renderHtml")

C21_FormRendering ==
  (op = "handleConfig" /\ Sent(log, 200) /\ ~HasFor(log, "send", "saved")) =>
    /\ Len(Rendered(log)) = Len(systemParameters) + Len(customParameterGroups)
    /\ \A k \in 1..Len(Rendered(log)) :
         /\ Rendered(log)[k].id = (systemParameters \o customParameterGroups)[k]
         /\ Rendered(log)[k].arg = <<Bit(ReqIotSave(log))>>
    /\ Count(log, "sendContent") = (IF updatePath THEN 5 ELSE 4)
    /\ AllBefore(log, "send", "sendContent")
    /\ \A i \in 1..Len(log) :
         log[i].ev = "renderHtml" =>
           /\ IndexFor(log, "sendContent", "formStart") < i
           /\ i < IndexFor(log, "sendContent", "formEnd")
    /\ HasFor(log, "sendContent", "update") <=> updatePath
    /\ updatePath =>
         /\ IndexFor(log, "sendContent", "formEnd") < IndexFor(log, "sendContent", "update")
         /\ IndexFor(log, "sendContent", "update") < IndexFor(log, "sendContent", "configVer")
    /\ HasFor(log, "sendContent", "configVer")
    /\ IndexFor(log, "sendContent", "formEnd") < IndexFor(log, "sendContent", "configVer")
    /\ log[Len(log)].ev = "stop"

\* A submission that failed validation got the form back, pre-filled from
\* what was submitted, with a custom group on it and the update link.
C21_Witness ==
  /\ op = "handleConfig"
  /\ ReqIotSave(log)
  /\ Sent(log, 200) /\ ~HasFor(log, "send", "saved")
  /\ customParameterGroups # <<>>
  /\ updatePath
  /\ Len(Rendered(log)) = 3
  /\ Rendered(log)[3].arg = <<1>>

(***************************************************************************)
(* C22.  Error messages survive until the next validation pass: a          *)
(* handleConfig() on a request without "iotSave" runs no validation, does  *)
(* not call the form validator and clears no error message, so the         *)
(* messages an earlier failed submission set are still on their items      *)
(* when a plain request that follows renders them; no other operation      *)
(* changes a message, and the validation of the next submission starts by  *)
(* clearing them, leaving a message only on the items that fail this time. *)
(***************************************************************************)
\* The last invocation ran some part of validateForm().
ValidationRan(l) ==
  \E i \in 1..Len(l) :
    l[i].ev \in {"clearErrorMessage", "formValidator", "arg", "errorMessage"}

C22_ErrorMessagesSurvive ==
  [][/\ (op' = "handleConfig" /\ ~ReqIotSave(log')) =>
          /\ ~ValidationRan(log')
          /\ errorMessage' = errorMessage
          /\ AuthenticConfigStep =>
               \A k \in 1..Len(systemParameters) :
                 HasFor(log', "renderHtml", systemParameters[k])
     /\ errorMessage' # errorMessage => ValidationStep
     /\ ValidationStep =>
          /\ IndexFor(log', "clearErrorMessage", "iwcSys") < First(log', "arg")
          /\ AllBefore(log', "clearErrorMessage", "errorMessage")
          /\ errorMessage'[ThingNameId]
               = (IF NameTooShort(log') THEN ThingNameError ELSE "")
          /\ errorMessage'[ApPasswordId]
               = (IF PasswordTooShort(log') THEN ApPasswordError ELSE "")]_vars

\* A plain request got the form while the thing name still carried the
\* message of an earlier failed submission.
C22_Witness ==
  /\ op = "handleConfig"
  /\ ~ReqIotSave(log)
  /\ FormRendered(log)
  /\ ~ValidationRan(log)
  /\ errorMessage[ThingNameId] = ThingNameError

(***************************************************************************)
(* C23.  Load never writes: loadConfig() and init() leave every byte of    *)
(* the store as it was, whether the tag matches or not, and call no write; *)
(* on a store with a wrong tag they return false and the tag is still      *)
(* wrong afterwards, so the loads that follow return false as well; the    *)
(* store changes, and a wrong tag becomes right, only by a saveConfig(),    *)
(* called directly or by an accepted submission.                           *)
(***************************************************************************)
\* The last invocation wrote to the store.
Wrote(l) == \E i \in 1..Len(l) : l[i].ev \in {"writeVersion", "write"}

C23_LoadNeverWrites ==
  [][/\ op' \in {"loadConfig", "init"} =>
          /\ eeprom' = eeprom
          /\ ~Wrote(log')
          /\ ~testConfigVersion(eeprom) =>
               /\ ret' = "false"
               /\ ~testConfigVersion(eeprom')
               /\ \A id \in RegisteredIds \ {ApPasswordId} :
                    CStr(values'[id]) = defaultValue(id)
     /\ (eeprom' # eeprom \/ (~testConfigVersion(eeprom) /\ testConfigVersion(eeprom'))) =>
          /\ Wrote(log')
          /\ \/ op' = "saveConfig"
             \/ op' = "handleConfig" /\ HasFor(log', "send", "saved")]_vars

\* A loadConfig() after init() on a store that was never written: it
\* returned false, the defaults are in memory (the AP password no longer
\* the initial one) and the store is still erased.
C23_Witness ==
  /\ op = "loadConfig"
  /\ ret = "false"
  /\ eeprom = ErasedStore
  /\ customParameterGroups # <<>>
  /\ ~Wrote(log)
  /\ CStr(values[ApPasswordId]) = defaultValue(ApPasswordId)
  /\ CStr(values[CustomId]) = defaultValue(CustomId)

(***************************************************************************)
(* C24.  Store accesses stay inside the opened region: in every load and   *)
(* every save, each range of bytes read or written, the version tag's and  *)
(* the leaves', starts at or after IOTWEBCONF_CONFIG_START and ends at or  *)
(* before the size the store was opened with, which is the base offset     *)
(* plus the tag length plus the total leaf storage size; the ranges follow *)
(* one another without a gap, and after a complete save or a load that     *)
(* found the tag the last one ends exactly at that size.                   *)
(***************************************************************************)
\* The ranges of the store the last invocation read or wrote, in order.
StoreAccesses(l) ==
  SelectSeq(l, LAMBDA e : e.ev \in {"readVersion", "writeVersion", "read", "write"})

\* Where a range ends: the offset just past its last byte.
RangeEnd(e) == e.arg[1] + e.arg[2]

C24_AccessesInsideRegion ==
  (op \in {"init", "loadConfig", "saveConfig", "handleConfig"} /\ Has(log, "EEPROM.begin")) =>
    LET opened == Entry(log, "EEPROM.begin").arg[1]
        acc == StoreAccesses(log)
    IN /\ opened = IOTWEBCONF_CONFIG_START + IOTWEBCONF_CONFIG_VERSION_LENGTH + TotalLeafSize
       /\ opened <= EepromSize
       /\ Len(acc) >= 1
       /\ acc[1].arg[1] = IOTWEBCONF_CONFIG_START
       /\ \A i \in 1..Len(acc) :
            /\ acc[i].arg[1] >= IOTWEBCONF_CONFIG_START
            /\ acc[i].arg[2] >= 0
            /\ RangeEnd(acc[i]) <= opened
            /\ i > 1 => acc[i].arg[1] = RangeEnd(acc[i - 1])
            /\ First(log, "EEPROM.begin") < IndexFor(log, acc[i].ev, acc[i].id)
       /\ (op \in {"saveConfig", "handleConfig"} \/ ret = "true") =>
            /\ Len(acc) = 1 + Len(PersistedOrder)
            /\ RangeEnd(acc[Len(acc)]) = opened

\* An accepted submission saved with a custom and a hidden leaf
\* registered: the last write ended where the opened region ends.
C24_Witness ==
  /\ op = "handleConfig"
  /\ HasFor(log, "send", "saved")
  /\ customParameterGroups # <<>> /\ hiddenParameters # <<>>
  /\ Len(StoreAccesses(log)) = 5
  /\ RangeEnd(StoreAccesses(log)[5]) = Entry(log, "EEPROM.begin").arg[1]
  /\ RangeEnd(StoreAccesses(log)[5]) = EepromSize

(***************************************************************************)
(* C25.  Authentication always uses the current AP password: every         *)
(* handleConfig() checks the admin user against the AP-password buffer as  *)
(* it is when the request comes in.  That buffer holds the initial         *)
(* password after an init() that found no valid configuration, the stored  *)
(* password after a load that found the tag, and the submitted password    *)
(* after an accepted submission; a request that is rejected or not         *)
(* authenticated, and every operation other than init, load and accepted   *)
(* submission, leaves it as it was.                                        *)
(***************************************************************************)
\* The AP password in the store: its leaf's bytes, as a C string.
StoredApPassword(ee) ==
  CStr(readEepromValue(ee, LeafStart + IOTWEBCONF_WORD_LEN, IOTWEBCONF_PASSWORD_LEN))

C25_CurrentPassword ==
  [][/\ op' = "handleConfig" =>
          /\ Count(log', "authenticate") = 1
          /\ Entry(log', "authenticate").id = IOTWEBCONF_ADMIN_USER_NAME
          /\ Entry(log', "authenticate").arg = CStr(values[ApPasswordId])
          /\ Challenge(log') <=>
               ~(/\ ReqUser(log') = IOTWEBCONF_ADMIN_USER_NAME
                 /\ ReqPassword(log') = CStr(values[ApPasswordId]))
          /\ IF Confirmation(log')
             THEN /\ CStr(values'[ApPasswordId]) = ReqArg(log', ApPasswordId)
                  /\ StoredApPassword(eeprom') = ReqArg(log', ApPasswordId)
             ELSE values'[ApPasswordId] = values[ApPasswordId]
     /\ (op' = "init" /\ ret' = "false") =>
          CStr(values'[ApPasswordId]) = initialApPassword
     /\ (op' \in {"init", "loadConfig"} /\ ret' = "true") =>
          CStr(values'[ApPasswordId]) = StoredApPassword(eeprom)
     /\ op' \notin {"init", "loadConfig", "handleConfig"} =>
          values'[ApPasswordId] = values[ApPasswordId]]_vars

\* A plain request with the password that an earlier accepted submission
\* had set, along with the thing name "abc", was let in.
C25_Witness ==
  /\ op = "handleConfig"
  /\ CStr(values[ThingNameId]) = Str(<<"a", "b", "c">>)
  /\ ~Challenge(log)
  /\ ReqPassword(log) = NewPassword
  /\ Entry(log, "authenticate").arg = NewPassword
  /\ CStr(values[ApPasswordId]) = NewPassword
  /\ StoredApPassword(eeprom) = NewPassword
  /\ ~ReqIotSave(log)

(***************************************************************************)
(* C17.  Exactly one request is processed at a time: while a handler       *)
(* invocation is in progress no handler is entered, and values, error      *)
(* messages and store change only by the steps of that one handler, for    *)
(* every sequence of doLoop() and delay() calls, those made by the         *)
(* sketch's callbacks included.                                            *)
(***************************************************************************)
C17_OneRequestAtATime ==
  [][HandlersIn(stack) >= 1 =>
       /\ HandlersIn(stack') <= 1
       /\ (values' # values \/ errorMessage' # errorMessage \/ eeprom' # eeprom)
            => (HandlersIn(stack) = 1 /\ Top.fn = "handleConfig")]_vars

(***************************************************************************)
(* C18.  Non-blocking wait: each time delay(m) tests its condition it      *)
(* calls doLoop() if fewer than m milliseconds have passed since it was    *)
(* called and returns otherwise, so delay(0) returns without calling       *)
(* doLoop(); a doLoop() returns after it has called the DNS server's       *)
(* processNextRequest() and then the web server's handleClient(), once     *)
(* each; and a delay() the sketch's loop() has called returns, also when   *)
(* the clock wraps during the wait.                                        *)
(***************************************************************************)
C18_NonBlockingWait ==
  /\ [][/\ (stack # <<>> /\ Top.fn = "delay" /\ Top.pc = "test") =>
             IF Top.elapsed < Top.m
             THEN /\ Len(stack') = Len(stack) + 1
                  /\ stack'[Len(stack')].fn = "doLoop"
                  /\ stack'[Len(stack')].calls = <<>>
                  /\ stack'[Len(stack)].fn = "delay"
             ELSE stack' = Pop
        /\ (stack # <<>> /\ Top.fn = "doLoop" /\ Len(stack') < Len(stack)) =>
             Top.calls = <<"processNextRequest", "handleClient">>
        /\ (stack # <<>> /\ Top.fn = "doLoop" /\ Len(stack') >= Len(stack)) =>
             /\ Len(stack'[Len(stack)].calls) = Len(Top.calls) + 1
             /\ Len(stack'[Len(stack)].calls) <= 2]_vars
  /\ (stack # <<>> /\ stack[1].fn = "delay") ~> (stack = <<>>)

\* A delay of the longest time, called by the sketch just before the
\* clock wraps, is about to return: the time has passed and the clock has
\* wrapped.
C18_Witness ==
  /\ stack # <<>>
  /\ Len(stack) = 1
  /\ Top.fn = "delay" /\ Top.pc = "test"
  /\ Top.m = MaxDelay
  /\ Top.delayStart = MillisModulus - 1
  /\ Top.elapsed >= Top.m
  /\ clock < Top.delayStart

====
